---- MODULE Spec2Model ----
(***************************************************************************)
(* Write/read coordination engine of the Exo Pool integration              *)
(* (custom_components/exo_pool/api.py): the per-entry write manager and    *)
(* its worker, the request rate limiter, the cooldown / deferral policy,   *)
(* the debounced refresh scheduler and the fetch pipeline                  *)
(* (async_update_data), for one config entry during one load of it.        *)
(*                                                                         *)
(* Every coroutine is cut at its suspension points (await of a sleep, of a *)
(* contended lock, of an HTTP exchange); the code between two suspension   *)
(* points is one action.                                                   *)
(*                                                                         *)
(* Time is in seconds.  The code uses clock readings only through their    *)
(* differences, so every stored reading is kept relative to the current    *)
(* instant: `now` is 0, and Tick, the passing of time, moves this origin   *)
(* by lowering every stored reading.  A reading that lies so far back that *)
(* no test of the code tells it from a later one is kept at that floor.    *)
(***************************************************************************)
EXTENDS Integers, Sequences, FiniteSets, TLC

\* ---------------------------------------------------------------- constants
REFRESH_DEFAULT == 600
REFRESH_MIN == 300
REFRESH_MAX == 3600
BOOST_INTERVAL == 10
BOOST_DURATION == 60
MIN_REQUEST_INTERVAL == 5
DEBOUNCED_REFRESH_DELAY == 30
WRITE_GAP_SECONDS == 8
POST_WRITE_COOLDOWN_SECONDS == 45
NO_READ_WINDOW_SECONDS == 30
MIN_REFRESH_GUARD_SECONDS == 120
SCHEDULE_REFRESH_DELAY == 180
READ_DEFERRAL_JITTER_MIN == 15
READ_DEFERRAL_JITTER_MAX == 45
DEBOUNCE_JITTER_MIN == 30
DEBOUNCE_JITTER_MAX == 90
\* max(60, ...) floor of the retry interval of a rate-limited first fetch
RETRY_FLOOR_SECONDS == 60
\* extra_delay of a write submitted with delay_refresh=True
DELAY_REFRESH_SECONDS == 10

\* ------------------------------------------------------------------- bounds
\* number of calls from outside: write calls (set_pool_value,
\* set_heating_value, update_schedule) and async_update_data calls together
MaxCalls == 3

\* ------------------------------------------------------------------ helpers
\* time.monotonic() and time.time(), read at the current instant
now == 0

\* an absent store key (store.get(...) is None); below every stored reading
None == 0 - 9999

Max(a, b) == IF a >= b THEN a ELSE b

Min(a, b) == IF a <= b THEN a ELSE b

\* random.uniform(a, b), cut down to its two end points
Uniform(a, b) == {a, b}

\* ---------------------------------------------------------- snapshot shapes
\* A dict is a function from its leaf paths to a value, Absent where the
\* dict has no such leaf.
Absent == "absent"

\* leaves of the cached device snapshot (coordinator.data)
Paths == {"equipment.swc_0.orp_sp", "heating.sp", "schedules.sch_1.timer.start", "schedules.sch_1.timer.end", "schedules.sch_1.rpm"}

\* leaves of a write payload, relative to the place _execute_write nests it at
Leaves == {"orp_sp", "sp", "timer.start", "timer.end", "rpm"}

EmptyData == [p \in Paths |-> Absent]

EmptyPayload == [l \in Leaves |-> Absent]

\* the reported state the cloud answers a successful GET with
ReportedChoices == {[p \in Paths |-> "reported"]}

\* _WriteManager._pending with no item
EmptyPending == [k \in {} |-> Absent]

\* faulty variant: the cache is not looked at
CachedDropped(d) == EmptyData

\* `coordinator.data or {}`
CachedOrEmpty(d) == IF d # EmptyData THEN d ELSE EmptyData

\* ------------------------------------------------------------------- state
VARIABLES
    cooldown_until,         \* store["cooldown_until"]
    write_quiet_until,      \* store["write_quiet_until"]
    no_read_until,          \* store["no_read_until"]
    write_in_flight,        \* store["write_in_flight"]
    last_success_fetch_ts,  \* store["last_success_fetch_ts"]
    last_request_ts,        \* store["last_request_ts"]
    request_lock,           \* store["request_lock"]: "free" or its holder
    lock_waiters,           \* coroutines queued on request_lock, FIFO
    refresh_deadline,       \* store["refresh_deadline"]
    debounce_refresh_task,  \* store["debounce_refresh_task"]: a task id
    debounce_tasks,         \* the _refresh_later tasks that are asleep
    data,                   \* coordinator.data
    update_interval,        \* coordinator.update_interval (seconds)
    refresh_requested,      \* coordinator.async_request_refresh() was called
    options_interval,       \* entry.options["refresh_interval"]
    id_token,               \* entry.data has an id_token
    refresh_token,          \* entry.data has a refresh_token
    token_expired,          \* time.time() > entry.data["expires_at"], as last tested
    last_auth_error,        \* module global _last_auth_error
    authentication_failed,  \* module global _authentication_failed
    pending,                \* _WriteManager._pending
    order,                  \* _WriteManager._order
    worker_pc,              \* position of the _worker task
    worker_item,            \* the item the worker dequeued, <<>> if none
    worker_wake,            \* end of the worker's current sleep
    fetch_pc,               \* position of the async_update_data call
    fetch_req,              \* the request it is at: refresh, login or get
    fetch_wake,             \* end of its rate-limit sleep
    loaded,                 \* async_setup_entry got its coordinator: entities exist
    futures,                \* state of each caller's future
    calls,                  \* write calls made so far
    fetches,                \* async_update_data calls made so far
    fetch_result,           \* how the last async_update_data call ended: deferred, returned, raised
    get_answer,             \* history: what the last device-state GET was answered
    notified,               \* history: set_result/set_exception per future
    posted,                 \* history: POSTs issued that carried the future
    group,                  \* history: first future of the item it joined
    written,                \* history: kind of the write call the future belongs to
    get_stale,              \* history: the GET predates an unfinished write
    applied_stale,          \* history: the last applied response was such
    expiry_reported,        \* history: a GET failed with "token has expired"
    boost_task,             \* store["boost_task"]: a task id
    boost_tasks,            \* the _reset_interval tasks that are asleep
    boosts,                 \* _async_boost_refresh_interval calls made so far
    interval_sets,          \* async_set_refresh_interval calls made so far
    boost_ts,               \* history: time of the latest boost trigger
    prev_interval,          \* history: the poll interval before the last answered GET
    unloaded,               \* async_unload_entry deleted the store of the entry
    fired,                  \* history: how the last _refresh_later that woke ended
    last_write_end,         \* history: time at which the last write POST was answered
    max_target              \* history: the latest target asked of the scheduler since its task last fired

storeVars == <<cooldown_until, write_quiet_until, no_read_until, write_in_flight, last_success_fetch_ts>>

rlVars == <<last_request_ts, request_lock, lock_waiters>>

debVars == <<refresh_deadline, debounce_refresh_task, debounce_tasks, refresh_requested, max_target>>

coordVars == <<data, update_interval>>

entryVars == <<options_interval, id_token, refresh_token, token_expired>>

authVars == <<last_auth_error, authentication_failed>>

mgrVars == <<pending, order>>

workerVars == <<worker_pc, worker_item, worker_wake>>

fetchVars == <<fetch_pc, fetch_req, fetch_wake, loaded>>

futVars == <<futures, calls, notified, posted, group, written>>

histVars == <<fetches, fetch_result, get_answer, get_stale, applied_stale, expiry_reported>>

boostVars == <<boost_task, boost_tasks, boosts, interval_sets, boost_ts>>

vars == <<storeVars, rlVars, debVars, coordVars, entryVars, authVars, mgrVars, workerVars, fetchVars, futVars, histVars, boostVars, prev_interval, unloaded, fired, last_write_end>>

\* the calls made from outside so far
CallsMade == calls + fetches + boosts + interval_sets

\* a future per write call
Futures == 1..MaxCalls

\* the config entries the model is run for: one fresh from the config flow
\* (default interval, id_token, no refresh token, expires_at read as 0), one
\* from an earlier run (a 40-minute interval, refresh token and expiry persisted)
Entries == {[refresh_interval |-> REFRESH_DEFAULT, refresh_token |-> FALSE], [refresh_interval |-> 2400, refresh_token |-> TRUE]}

\* ------------------------------------------------- cooldown / defer policy
\* _get_configured_interval_seconds
ConfiguredInterval == Max(REFRESH_MIN, Min(REFRESH_MAX, options_interval))

\* _is_write_active
IsWriteActive == write_in_flight > 0 \/ now < write_quiet_until

\* _cooldown_remaining
CooldownRemaining == Max(0, cooldown_until - now)

\* the no_read_until test of async_update_data, _should_defer_refresh and _refresh_later
InNoReadWindow == no_read_until # None /\ now < no_read_until

\* the three deferral tests of async_update_data / _should_defer_refresh together
ShouldDeferRead == InNoReadWindow \/ IsWriteActive \/ CooldownRemaining > 0

\* faulty variant of _set_cooldown: the cooldown is left as it is
SetCooldownKeep(current, seconds) == current

\* faulty variant of _set_cooldown: the cooldown is set without the max
SetCooldownOverwrite(current, seconds) == now + seconds

\* _set_cooldown: the new store["cooldown_until"], from the current one
SetCooldown(current, seconds) == Max(current, now + seconds)

\* ------------------------------------------------ debounced refresh scheduler
\* the three store entries the scheduler works on, as one value
Deb == [deadline |-> refresh_deadline, task |-> debounce_refresh_task, tasks |-> debounce_tasks]

\* _clear_debounce_task
ClearDebounce(deb) == [deb EXCEPT !.deadline = None, !.task = None]

\* the fired task has left its sleep: it is no longer among the sleeping tasks
Fired(deb, t) == [deb EXCEPT !.tasks = deb.tasks \ {t}]

\* a task id no sleeping task has: a new task is another object than the
\* one it replaces
NewTaskId(tasks) == CHOOSE i \in 0..Cardinality(tasks) : \A t \in tasks : t.id # i

\* faulty variant: the cancelled task sleeps on
CancelIgnored(tasks, id) == tasks

\* task.cancel() on the sleeping task with that id: CancelledError is raised
\* at its sleep, the task catches it and returns
Cancel(tasks, id) == {t \in tasks : t.id # id}

\* faulty variant: the target does not look at the cooldown
TargetIgnoringCooldown(delay, jitter, cooldown) == now + delay + jitter

\* faulty variant: the delay asked for is not added
TargetWithoutDelay(delay, jitter, cooldown) == Max(now, cooldown) + jitter

\* faulty variant: no jitter is added to the target
TargetWithoutJitter(delay, jitter, cooldown) ==
    LET target == Max(now + delay, cooldown)
    IN  IF target <= now THEN now ELSE target

\* target of _schedule_debounced_refresh, cooldown being store["cooldown_until"]
DebounceTarget(delay, jitter, cooldown) ==
    LET target == Max(now + delay, cooldown) + jitter
    IN  IF target <= now THEN now ELSE target

\* faulty variant of _schedule_debounced_refresh: the stored task is not cancelled
ScheduleNoCancel(deb, target) ==
    IF deb.deadline # None /\ deb.deadline >= target
    THEN deb
    ELSE LET id == NewTaskId(deb.tasks)
         IN  [deadline |-> target, task |-> id, tasks |-> deb.tasks \cup {[id |-> id, target |-> target]}]

\* faulty variant of _schedule_debounced_refresh: without the early return on
\* a deadline at or beyond the target
ScheduleAlways(deb, target) ==
    LET kept == IF deb.deadline # None /\ deb.task # None
                THEN {t \in deb.tasks : t.id # deb.task}
                ELSE deb.tasks
        id == NewTaskId(deb.tasks)
    IN  [deadline |-> target, task |-> id, tasks |-> kept \cup {[id |-> id, target |-> target]}]

\* _schedule_debounced_refresh once the target is known: keep a deadline that
\* is at or beyond it, else cancel the stored task and start one for it
ScheduleDebouncedRefresh(deb, target) ==
    IF deb.deadline # None /\ deb.deadline >= target
    THEN deb
    ELSE LET kept == IF deb.deadline # None /\ deb.task # None
                     THEN Cancel(deb.tasks, deb.task)
                     ELSE deb.tasks
             id == NewTaskId(deb.tasks)
         IN  [deadline |-> target, task |-> id, tasks |-> kept \cup {[id |-> id, target |-> target]}]

SetDeb(deb) ==
    /\ refresh_deadline' = deb.deadline
    /\ debounce_refresh_task' = deb.task
    /\ debounce_tasks' = deb.tasks

\* -------------------------------------------------------------- rate limiter
\* faulty variant: the request is recorded at once, whatever the last one was
RateLimitNoWait(proc, waiters) ==
    [stage |-> "http", lock |-> "free", waiters |-> waiters, last |-> now, wake |-> None]

\* _async_rate_limit with the lock in hand: sleep out the rest of
\* MIN_REQUEST_INTERVAL holding the lock, or record the request at once
RateLimitLocked(proc, waiters) ==
    LET wait_time == IF last_request_ts # None
                     THEN MIN_REQUEST_INTERVAL - (now - last_request_ts)
                     ELSE 0
    IN  IF wait_time > 0
        THEN [stage |-> "sleep", lock |-> proc, waiters |-> waiters, last |-> last_request_ts, wake |-> now + wait_time]
        ELSE [stage |-> "http", lock |-> "free", waiters |-> waiters, last |-> now, wake |-> None]

\* _async_rate_limit from its call: an uncontended asyncio.Lock is taken
\* without suspending, a held one queues the caller
RateLimitEnter(proc) ==
    IF request_lock = "free" /\ lock_waiters = <<>>
    THEN RateLimitLocked(proc, lock_waiters)
    ELSE [stage |-> "lock", lock |-> request_lock, waiters |-> Append(lock_waiters, proc), last |-> last_request_ts, wake |-> None]

SetRateLimit(r) ==
    /\ request_lock' = r.lock
    /\ lock_waiters' = r.waiters
    /\ last_request_ts' = r.last

\* ---------------------------------------------------------- HTTP responses
\* body of the cloud's answer to an expired bearer token
TokenExpiredBody == "{message:The incoming token has expired}"

\* the phrases the code searches a response body for, per body
Phrases(body) ==
    CASE body = TokenExpiredBody -> {"The incoming token has expired"}
      [] body = "Too Many Requests" -> {"Too Many Requests"}
      [] OTHER -> {}

\* `phrase in error_text`
Contains(body, phrase) == phrase \in Phrases(body)

\* answers of the cloud to the device-state GET
GetResponses == {[status |-> 200, body |-> "shadow"], [status |-> 429, body |-> "Too Many Requests"], [status |-> 503, body |-> "Too Many Requests"], [status |-> 401, body |-> TokenExpiredBody], [status |-> 500, body |-> "Internal Server Error"]}

\* is_rate_limited of async_update_data
IsRateLimited(resp) == resp.status = 429 \/ Contains(resp.body, "Too Many Requests")

\* the answer as async_update_data tells answers apart: 200, rate limited, other
AnswerKind(resp) == IF resp.status = 200 THEN "ok" ELSE IF IsRateLimited(resp) THEN "rate_limited" ELSE "error"

\* `"boost_task" in store`
BoostTaskInStore == boost_task # None

\* ------------------------------------------------------------------- Init
\* get_coordinator has stored the coordinator and is about to run its first
\* refresh
Init ==
    /\ cooldown_until = 0
    /\ write_quiet_until = 0
    /\ no_read_until = None
    /\ write_in_flight = 0
    /\ last_success_fetch_ts = None
    /\ last_request_ts = None
    /\ request_lock = "free"
    /\ lock_waiters = <<>>
    /\ refresh_deadline = None
    /\ debounce_refresh_task = None
    /\ debounce_tasks = {}
    /\ data = EmptyData
    /\ \E e \in Entries : options_interval = e.refresh_interval /\ refresh_token = e.refresh_token
    /\ update_interval = ConfiguredInterval
    /\ refresh_requested = FALSE
    /\ id_token = TRUE
    /\ token_expired = ~refresh_token
    /\ last_auth_error = "None"
    /\ authentication_failed = FALSE
    /\ pending = EmptyPending
    /\ order = <<>>
    /\ worker_pc = "none"
    /\ worker_item = <<>>
    /\ worker_wake = None
    /\ fetch_pc = "idle"
    /\ fetch_req = "none"
    /\ fetch_wake = None
    /\ loaded = FALSE
    /\ futures = [f \in Futures |-> "unborn"]
    /\ calls = 0
    /\ fetches = 0
    /\ fetch_result = "none"
    /\ get_answer = "none"
    /\ notified = [f \in Futures |-> 0]
    /\ posted = [f \in Futures |-> 0]
    /\ group = [f \in Futures |-> 0]
    /\ written = [f \in Futures |-> "none"]
    /\ get_stale = FALSE
    /\ applied_stale = FALSE
    /\ expiry_reported = FALSE
    /\ boost_task = None
    /\ boost_tasks = {}
    /\ boosts = 0
    /\ interval_sets = 0
    /\ boost_ts = None
    /\ prev_interval = None
    /\ unloaded = FALSE
    /\ fired = "none"
    /\ last_write_end = None
    /\ max_target = None

\* ------------------------------------------------------------ fetch pipeline
\* the value _last_auth_error has when async_update_data tests it: the call
\* has reset the global on entry
AuthErrorAtTest == "None"

\* outcomes of `time.time() > expires_at`: an expiry that has passed stays
\* passed; one that lay ahead when last tested may have passed since (the wall
\* clock is not the monotonic clock, no stored reading tells)
ExpiryTests == IF token_expired THEN {TRUE} ELSE BOOLEAN

\* the token test of async_update_data, expired being `time.time() > expires_at`
NeedsAuth(expired) == ~id_token \/ AuthErrorAtTest = TokenExpiredBody \/ expired

\* a write whose optimistic patch is in the cache has not completed
WriteUnfinished == \E f \in Futures : futures[f] = "pending"

\* the call moves to request req, r being what _async_rate_limit did
FetchAt(req, r) ==
    /\ fetch_pc' = r.stage
    /\ fetch_req' = req
    /\ fetch_wake' = r.wake
    /\ SetRateLimit(r)
    /\ get_stale' = IF r.stage = "http" /\ req = "get" THEN WriteUnfinished ELSE get_stale

\* the call ends: the coordinator keeps what it returned, or its old data if it raised
FetchEnd(result, returned) ==
    /\ fetch_pc' = "idle"
    /\ fetch_req' = "none"
    /\ fetch_wake' = None
    /\ fetch_result' = result
    /\ data' = IF result = "raised" THEN data ELSE returned
    /\ loaded' = (loaded \/ result # "raised")

\* a deferred call: one debounced refresh, and the cached snapshot is returned
FetchDefer(delay, jitter) ==
    /\ SetDeb(ScheduleDebouncedRefresh(Deb, DebounceTarget(delay, jitter, cooldown_until)))
    /\ max_target' = Max(max_target, DebounceTarget(delay, jitter, cooldown_until))
    /\ FetchEnd("deferred", CachedOrEmpty(data))
    /\ UNCHANGED <<rlVars, get_stale, token_expired>>

\* a call past the gate: token test, then refresh, login or the GET
FetchProceed ==
    /\ \E expired \in ExpiryTests :
          /\ token_expired' = expired
          /\ FetchAt(IF NeedsAuth(expired) THEN (IF refresh_token THEN "refresh" ELSE "login") ELSE "get", RateLimitEnter("fetch"))
    /\ UNCHANGED <<refresh_deadline, debounce_refresh_task, debounce_tasks, max_target, data, fetch_result, loaded>>

\* async_update_data up to its first suspension point
FetchStart ==
    /\ fetch_pc = "idle"
    /\ loaded \/ fetch_result = "none"
    /\ CallsMade < MaxCalls
    /\ fetches' = fetches + 1
    /\ authentication_failed' = FALSE
    /\ last_auth_error' = "None"
    /\ refresh_requested' = FALSE
    /\ IF InNoReadWindow
       THEN \E j \in Uniform(DEBOUNCE_JITTER_MIN, DEBOUNCE_JITTER_MAX) : FetchDefer(0, j)
       ELSE IF IsWriteActive
       THEN \E d \in Uniform(READ_DEFERRAL_JITTER_MIN, READ_DEFERRAL_JITTER_MAX), j \in Uniform(DEBOUNCE_JITTER_MIN, DEBOUNCE_JITTER_MAX) : FetchDefer(d, j)
       ELSE IF CooldownRemaining > 0
       THEN \E j \in Uniform(DEBOUNCE_JITTER_MIN, DEBOUNCE_JITTER_MAX) : FetchDefer(0, j)
       ELSE FetchProceed
    /\ UNCHANGED <<storeVars, update_interval, options_interval, id_token, refresh_token, mgrVars, workerVars, futVars, get_answer, applied_stale, expiry_reported, boostVars, prev_interval, unloaded, fired, last_write_end>>

\* the queued call gets request_lock
FetchLockAcquire ==
    /\ fetch_pc = "lock"
    /\ request_lock = "free"
    /\ Head(lock_waiters) = "fetch"
    /\ FetchAt(fetch_req, RateLimitLocked("fetch", Tail(lock_waiters)))
    /\ UNCHANGED <<storeVars, debVars, coordVars, entryVars, authVars, mgrVars, workerVars, loaded, futVars, fetches, fetch_result, get_answer, applied_stale, expiry_reported, boostVars, prev_interval, unloaded, fired, last_write_end>>

\* the rate-limit sleep of the call is over: record the request, release the lock
FetchRateLimitWake ==
    /\ fetch_pc = "sleep"
    /\ now >= fetch_wake
    /\ FetchAt(fetch_req, [stage |-> "http", lock |-> "free", waiters |-> lock_waiters, last |-> now, wake |-> None])
    /\ UNCHANGED <<storeVars, debVars, coordVars, entryVars, authVars, mgrVars, workerVars, loaded, futVars, fetches, fetch_result, get_answer, applied_stale, expiry_reported, boostVars, prev_interval, unloaded, fired, last_write_end>>

\* faulty variant: the entry keeps a refresh token only if the response has one
TokenStoredAsReceived(has_refresh_token) ==
    /\ id_token' = TRUE
    /\ refresh_token' = has_refresh_token
    /\ token_expired' = FALSE
    /\ expiry_reported' = FALSE
    /\ UNCHANGED options_interval

\* _full_login / _refresh_token stored a new token
TokenStored(has_refresh_token) ==
    /\ id_token' = TRUE
    /\ refresh_token' = (refresh_token \/ has_refresh_token)
    /\ token_expired' = FALSE
    /\ expiry_reported' = FALSE
    /\ UNCHANGED options_interval

\* _refresh_token gets its answer: a token (True), or non-200, no IdToken or an
\* exception, after which async_update_data falls back to _full_login
RefreshResponse ==
    /\ fetch_pc = "http"
    /\ fetch_req = "refresh"
    /\ \/ /\ \E rt \in BOOLEAN : TokenStored(rt)
          /\ FetchAt("get", RateLimitEnter("fetch"))
       \/ /\ FetchAt("login", RateLimitEnter("fetch"))
          /\ UNCHANGED <<entryVars, expiry_reported>>
    /\ UNCHANGED <<storeVars, debVars, coordVars, authVars, mgrVars, workerVars, loaded, futVars, fetches, fetch_result, get_answer, applied_stale, boostVars, prev_interval, unloaded, fired, last_write_end>>

\* what _full_login records in _last_auth_error when it raises: the body of a
\* non-200 answer, or the text for a 200 answer without IdToken or without
\* authentication_token
LoginErrors == {"login error_text", "No userPoolOAuth.IdToken received", "No authentication_token received"}

\* faulty variant: a failed login ends the call with the cached snapshot
LoginServesCache(err) ==
    /\ last_auth_error' = err
    /\ authentication_failed' = TRUE
    /\ FetchEnd("returned", CachedOrEmpty(data))

\* _full_login raises: the two globals are set, the exception leaves
\* async_update_data before the device-state GET
LoginFailed(err) ==
    /\ last_auth_error' = err
    /\ authentication_failed' = TRUE
    /\ FetchEnd("raised", data)

\* _full_login gets its answer
LoginResponse ==
    /\ fetch_pc = "http"
    /\ fetch_req = "login"
    /\ \/ /\ \E rt \in BOOLEAN : TokenStored(rt)
          /\ FetchAt("get", RateLimitEnter("fetch"))
          /\ UNCHANGED <<authVars, data, fetch_result, loaded>>
       \/ /\ \E err \in LoginErrors : LoginFailed(err)
          /\ UNCHANGED <<entryVars, rlVars, get_stale, expiry_reported>>
    /\ UNCHANGED <<storeVars, debVars, update_interval, mgrVars, workerVars, futVars, fetches, get_answer, applied_stale, boostVars, prev_interval, unloaded, fired, last_write_end>>

\* faulty variant of the backoff: doubling without the REFRESH_MAX cap
BackoffUncapped(cur_s, has_data) ==
    IF has_data
    THEN cur_s * 2
    ELSE Max(RETRY_FLOOR_SECONDS, Min(ConfiguredInterval, REFRESH_MAX))

\* the poll interval after a rate-limited GET, cur_s being the current one
BackoffInterval(cur_s, has_data) ==
    IF has_data
    THEN Max(cur_s, Min(cur_s * 2, REFRESH_MAX))
    ELSE Max(RETRY_FLOOR_SECONDS, Min(ConfiguredInterval, REFRESH_MAX))

\* faulty variant: a successful GET leaves the interval as it is
RestoredNever(cur_s, boost) == cur_s

\* the poll interval after a successful GET, boost being `"boost_task" in store`
RestoredInterval(cur_s, boost) == IF cur_s > ConfiguredInterval /\ ~boost THEN ConfiguredInterval ELSE cur_s

\* the GET answered 200: the reported state becomes the snapshot
GetOk ==
    /\ \E reported \in ReportedChoices : FetchEnd("returned", reported)
    /\ last_success_fetch_ts' = now
    /\ update_interval' = RestoredInterval(update_interval, BoostTaskInStore)
    /\ applied_stale' = get_stale
    /\ UNCHANGED <<cooldown_until, authVars, expiry_reported>>

\* the GET was rate limited: back off, set the cooldown, return the cache or {}
GetRateLimited ==
    LET new_s == BackoffInterval(update_interval, data # EmptyData)
        first == IF new_s # update_interval THEN SetCooldown(cooldown_until, new_s) ELSE cooldown_until
    IN  /\ update_interval' = new_s
        /\ cooldown_until' = SetCooldown(first, new_s)
        /\ FetchEnd("returned", CachedOrEmpty(data))
        /\ UNCHANGED <<last_success_fetch_ts, authVars, applied_stale, expiry_reported>>

\* faulty variant: a failed GET is served from the cache like a rate-limited one
GetFailedServesCache(resp) ==
    /\ IF Contains(resp.body, "The incoming token has expired")
       THEN last_auth_error' = resp.body /\ expiry_reported' = TRUE
       ELSE UNCHANGED <<last_auth_error, expiry_reported>>
    /\ FetchEnd("returned", CachedOrEmpty(data))
    /\ UNCHANGED <<cooldown_until, last_success_fetch_ts, update_interval, authentication_failed, applied_stale>>

\* the GET failed otherwise: note a token expiry, raise UpdateFailed
GetFailed(resp) ==
    /\ IF Contains(resp.body, "The incoming token has expired")
       THEN last_auth_error' = resp.body /\ expiry_reported' = TRUE
       ELSE UNCHANGED <<last_auth_error, expiry_reported>>
    /\ FetchEnd("raised", data)
    /\ UNCHANGED <<cooldown_until, last_success_fetch_ts, update_interval, authentication_failed, applied_stale>>

\* the device-state GET gets its answer
GetResponse ==
    /\ fetch_pc = "http"
    /\ fetch_req = "get"
    /\ prev_interval' = update_interval
    /\ \E resp \in GetResponses :
          /\ get_answer' = AnswerKind(resp)
          /\ IF resp.status = 200 THEN GetOk
             ELSE IF IsRateLimited(resp) THEN GetRateLimited
             ELSE GetFailed(resp)
    /\ UNCHANGED <<write_quiet_until, no_read_until, write_in_flight, rlVars, debVars, entryVars, mgrVars, workerVars, futVars, fetches, get_stale, boostVars, unloaded, fired, last_write_end>>

\* get_coordinator called again after its first refresh raised: the stored
\* coordinator is returned as it is
SetupRetry ==
    /\ ~loaded
    /\ fetch_pc = "idle"
    /\ fetch_result = "raised"
    /\ loaded' = TRUE
    /\ UNCHANGED <<storeVars, rlVars, debVars, coordVars, entryVars, authVars, mgrVars, workerVars, fetch_pc, fetch_req, fetch_wake, futVars, histVars, boostVars, prev_interval, unloaded, fired, last_write_end>>

\* ------------------------------------------------------------ write manager
\* _merge_dict: a leaf of the update replaces the leaf of the base, the other
\* leaves of the base stay
MergeDict(base, update) == [l \in Leaves |-> IF update[l] # Absent THEN update[l] ELSE base[l]]

\* faulty variant of that branch: the new payload replaces the pending one
\* whatever merge_func is
EnqueueReplace(existing, item) ==
    [existing EXCEPT
        !.payload = item.payload,
        !.extra_delay = Max(existing.extra_delay, item.extra_delay),
        !.futures = existing.futures \o item.futures,
        !.subs = Append(existing.subs, item.payload),
        !.delays = existing.delays \o item.delays]

\* faulty variant: the extra delay of the last submission replaces the pending one
EnqueueLastDelay(existing, item) ==
    [existing EXCEPT
        !.payload = IF existing.merge_func THEN MergeDict(existing.payload, item.payload) ELSE item.payload,
        !.extra_delay = item.extra_delay,
        !.futures = existing.futures \o item.futures,
        !.subs = Append(existing.subs, item.payload),
        !.delays = existing.delays \o item.delays]

\* enqueue, the branch that finds an item of the same key pending
EnqueueMerge(existing, item) ==
    [existing EXCEPT
        !.payload = IF existing.merge_func THEN MergeDict(existing.payload, item.payload) ELSE item.payload,
        !.extra_delay = Max(existing.extra_delay, item.extra_delay),
        !.futures = existing.futures \o item.futures,
        !.subs = Append(existing.subs, item.payload),
        !.delays = existing.delays \o item.delays]

\* _WriteManager._pending after enqueue(item)
PendingAfter(item) ==
    IF item.key \in DOMAIN pending
    THEN [pending EXCEPT ![item.key] = EnqueueMerge(pending[item.key], item)]
    ELSE [k \in DOMAIN pending \cup {item.key} |-> IF k = item.key THEN item ELSE pending[k]]

\* faulty variant: the key is appended even when an item of that key is pending
OrderAppend(item) == Append(order, item.key)

\* faulty variant: a new key goes to the head of the queue
OrderPrepend(item) == IF item.key \in DOMAIN pending THEN order ELSE <<item.key>> \o order

\* _WriteManager._order after enqueue(item)
OrderAfter(item) == IF item.key \in DOMAIN pending THEN order ELSE Append(order, item.key)

\* the futures of an item, as a set
FutureSet(item) == {item.futures[i] : i \in 1..Len(item.futures)}

\* faulty variant: enqueue takes the worker task it has for a running one
EnsureWorkerStale(pc) == pc

\* the end of enqueue: a worker task is created if there is none or the one
\* there was is done, pc being the position of the worker
EnsureWorker(pc) == IF pc = "none" THEN "start" ELSE pc

\* _WriteManager.enqueue; its lock is never contended (no holder suspends)
Enqueue(item) ==
    /\ no_read_until' = now + NO_READ_WINDOW_SECONDS
    /\ pending' = PendingAfter(item)
    /\ order' = OrderAfter(item)
    /\ worker_pc' = EnsureWorker(worker_pc)
    /\ group' = [group EXCEPT ![item.futures[1]] = PendingAfter(item)[item.key].futures[1]]

\* _WriteItem as the three callers build it, around a new future
WriteItem(kind, key, target, payload, merge_func, extra_delay) ==
    [kind |-> kind, key |-> key, target |-> target, payload |-> payload, futures |-> <<calls + 1>>, merge_func |-> merge_func, extra_delay |-> extra_delay, subs |-> <<payload>>, delays |-> <<extra_delay>>]

\* what set_pool_value, set_heating_value and update_schedule share: the
\* optimistic patch, the future, the enqueue; the caller then awaits the future
WriteCall(item, patched) ==
    /\ loaded
    /\ CallsMade < MaxCalls
    /\ id_token
    /\ data' = patched
    /\ calls' = calls + 1
    /\ futures' = [futures EXCEPT ![calls + 1] = "pending"]
    /\ written' = [written EXCEPT ![calls + 1] = item.kind]
    /\ Enqueue(item)
    /\ get_stale' = IF fetch_pc = "http" /\ fetch_req = "get" THEN TRUE ELSE get_stale
    /\ UNCHANGED <<cooldown_until, write_quiet_until, write_in_flight, last_success_fetch_ts, rlVars, debVars, update_interval, entryVars, authVars, worker_item, worker_wake, fetchVars, notified, posted, fetches, fetch_result, get_answer, applied_stale, expiry_reported, boostVars, prev_interval, unloaded, fired, last_write_end>>

\* a payload with one leaf
Leaf(l, value) == [EmptyPayload EXCEPT ![l] = value]

\* faulty variant: the snapshot is left as it is
ApplyNoUpdate(d, value) == d

\* _apply_desired_update at ["equipment", "swc_0", "orp_sp"]
ApplyDesiredUpdate(d, value) == [d EXCEPT !["equipment.swc_0.orp_sp"] = value]

\* _apply_heating_update of heating.sp
ApplyHeatingUpdate(d, value) == [d EXCEPT !["heating.sp"] = value]

\* a schedule patch has the key "timer"
HasTimer(patch) == patch["timer.start"] # Absent \/ patch["timer.end"] # Absent

\* _apply_schedule_update: dict.update of the cached schedule by the patch,
\* which replaces the keys the patch has ("timer", "rpm") as wholes
ApplyScheduleUpdate(d, patch) ==
    [d EXCEPT
        !["schedules.sch_1.timer.start"] = IF HasTimer(patch) THEN patch["timer.start"] ELSE @,
        !["schedules.sch_1.timer.end"] = IF HasTimer(patch) THEN patch["timer.end"] ELSE @,
        !["schedules.sch_1.rpm"] = IF patch["rpm"] # Absent THEN patch["rpm"] ELSE @]

\* sched_patch of update_schedule(start, end, rpm), Absent for an argument None
SchedPatch(start, end, rpm) == [l \in Leaves |-> CASE l = "timer.start" -> start [] l = "timer.end" -> end [] l = "rpm" -> rpm [] OTHER -> Absent]

\* (value, delay_refresh) of the pool writes the entities make
PoolWrites == {<<"700", FALSE>>, <<"750", TRUE>>}

HeatingValues == {"28"}

\* (start, end, rpm) given to the set_schedule service
ScheduleArgs == {<<"06:00:30", Absent, Absent>>}

\* set_pool_value(hass, entry, "orp_sp", value, delay_refresh)
SetPoolValue ==
    \E w \in PoolWrites :
        LET value == w[1]
            delay_refresh == w[2]
        IN  WriteCall(WriteItem("pool", "pool:orp_sp", "orp_sp", Leaf("orp_sp", value), FALSE, IF delay_refresh THEN DELAY_REFRESH_SECONDS ELSE 0),
                      ApplyDesiredUpdate(CachedOrEmpty(data), value))

\* set_heating_value(hass, entry, "sp", value)
SetHeatingValue ==
    \E value \in HeatingValues :
        WriteCall(WriteItem("heating", "heating:sp", "sp", Leaf("sp", value), FALSE, 0),
                  ApplyHeatingUpdate(CachedOrEmpty(data), value))

\* _normalize_time on the time texts of the model: HH:MM:SS loses its seconds
NormalizeTime(val) == CASE val = "06:00:30" -> "06:00" [] val = "00:00:00" -> "00:00" [] OTHER -> val

\* `schedule_key in schedules` for sch_1: the cached snapshot has that schedule
KnownSchedule(d) == \E p \in {"schedules.sch_1.timer.start", "schedules.sch_1.timer.end", "schedules.sch_1.rpm"} : d[p] # Absent

\* what a schedule service call comes to: the error it raises ("None" if it
\* raises none), the payload of the write it enqueues (none if it enqueues
\* none) and the snapshot it leaves
Outcome(error, payloads, d) == [error |-> error, enqueued |-> payloads, data |-> d]

\* update_schedule(hass, entry, "sch_1", start=, end=, rpm=)
UpdateSchedule(start, end, rpm) ==
    LET sched_patch == SchedPatch(start, end, rpm)
    IN  IF ~id_token THEN Outcome("Unauthenticated", <<>>, data)
        ELSE IF sched_patch = EmptyPayload THEN Outcome("None", <<>>, data)
        ELSE Outcome("None", <<sched_patch>>, ApplyScheduleUpdate(CachedOrEmpty(data), sched_patch))

\* handle_set_schedule for sch_1 (not a VSP schedule: rpm is ignored)
SetSchedule(start, end, rpm) ==
    IF ~KnownSchedule(CachedOrEmpty(data))
    THEN Outcome("Unknown schedule: sch_1", <<>>, data)
    ELSE UpdateSchedule(NormalizeTime(start), NormalizeTime(end), Absent)

\* handle_disable_schedule for sch_1
DisableSchedule == UpdateSchedule("00:00", "00:00", Absent)

\* the service call as a step: one that raises or has nothing to update
\* changes no state
ScheduleService(outcome) ==
    /\ outcome.error = "None"
    /\ outcome.enqueued # <<>>
    /\ WriteCall(WriteItem("schedule", "schedule:sch_1", "sch_1", outcome.enqueued[1], TRUE, 0), outcome.data)

\* the set_schedule service
HandleSetSchedule == \E args \in ScheduleArgs : ScheduleService(SetSchedule(args[1], args[2], args[3]))

\* the disable_schedule service
HandleDisableSchedule == ScheduleService(DisableSchedule)

\* ------------------------------------------------------------- write worker
\* faulty variant: only the future of the caller that created the item is resolved
ResolveFirst(item, outcome) ==
    /\ futures' = [futures EXCEPT ![item.futures[1]] = outcome]
    /\ notified' = [notified EXCEPT ![item.futures[1]] = @ + 1]

\* faulty variant: every future that is not done gets the outcome
ResolveEvery(item, outcome) ==
    /\ futures' = [f \in Futures |-> IF futures[f] = "pending" THEN outcome ELSE futures[f]]
    /\ notified' = [f \in Futures |-> IF futures[f] = "pending" THEN notified[f] + 1 ELSE notified[f]]

\* the futures of the item that are not done get the outcome
Resolve(item, outcome) ==
    /\ futures' = [f \in Futures |-> IF f \in FutureSet(item) /\ futures[f] = "pending" THEN outcome ELSE futures[f]]
    /\ notified' = [f \in Futures |-> IF f \in FutureSet(item) /\ futures[f] = "pending" THEN notified[f] + 1 ELSE notified[f]]

\* the worker moves on in _execute_write, r being what _async_rate_limit did;
\* at stage "http" the POST is issued
WorkerAt(item, r) ==
    /\ worker_pc' = r.stage
    /\ worker_wake' = r.wake
    /\ worker_item' = <<item>>
    /\ SetRateLimit(r)
    /\ posted' = [f \in Futures |-> IF r.stage = "http" /\ f \in FutureSet(item) THEN posted[f] + 1 ELSE posted[f]]

\* faulty variant: the finally block does not decrement write_in_flight
WriteDoneKeep(item, outcome, in_flight) ==
    /\ Resolve(item, outcome)
    /\ write_in_flight' = in_flight
    /\ worker_pc' = "gap"
    /\ worker_wake' = now + WRITE_GAP_SECONDS
    /\ worker_item' = <<>>

\* faulty variant: the worker goes back to the queue without the gap sleep
WriteDoneNoGap(item, outcome, in_flight) ==
    /\ Resolve(item, outcome)
    /\ write_in_flight' = Max(0, in_flight - 1)
    /\ worker_pc' = "gap"
    /\ worker_wake' = now
    /\ worker_item' = <<>>

\* the except / else / finally of the worker and the start of its gap sleep,
\* in_flight being write_in_flight as the try block left it
WriteDone(item, outcome, in_flight) ==
    /\ Resolve(item, outcome)
    /\ write_in_flight' = Max(0, in_flight - 1)
    /\ worker_pc' = "gap"
    /\ worker_wake' = now + WRITE_GAP_SECONDS
    /\ worker_item' = <<>>

\* the try block of the worker up to the first suspension of _execute_write
BeginWrite(item) ==
    IF ~id_token
    THEN /\ WriteDone(item, "error", write_in_flight + 1)
         /\ UNCHANGED <<rlVars, posted>>
    ELSE /\ write_in_flight' = write_in_flight + 1
         /\ WorkerAt(item, RateLimitEnter("worker"))
         /\ UNCHANGED <<futures, notified>>

\* top of the worker loop: on start and after each gap sleep
WorkerDequeue ==
    /\ worker_pc = "start" \/ (worker_pc = "gap" /\ now >= worker_wake)
    /\ IF order = <<>>
       THEN /\ worker_pc' = "none"
            /\ worker_wake' = None
            /\ UNCHANGED <<mgrVars, worker_item, write_in_flight, rlVars, futures, notified, posted>>
       ELSE LET key == Head(order)
                item == pending[key]
            IN  /\ order' = Tail(order)
                /\ pending' = [k \in DOMAIN pending \ {key} |-> pending[k]]
                /\ IF CooldownRemaining > 0
                   THEN /\ worker_pc' = "cooldown"
                        /\ worker_wake' = now + CooldownRemaining
                        /\ worker_item' = <<item>>
                        /\ UNCHANGED <<write_in_flight, rlVars, futures, notified, posted>>
                   ELSE BeginWrite(item)
    /\ UNCHANGED <<cooldown_until, write_quiet_until, no_read_until, last_success_fetch_ts, debVars, coordVars, entryVars, authVars, fetchVars, calls, written, group, histVars, boostVars, prev_interval, unloaded, fired, last_write_end>>

\* the cooldown sleep of the worker is over
WorkerCooldownWake ==
    /\ worker_pc = "cooldown"
    /\ now >= worker_wake
    /\ BeginWrite(worker_item[1])
    /\ UNCHANGED <<cooldown_until, write_quiet_until, no_read_until, last_success_fetch_ts, debVars, coordVars, entryVars, authVars, mgrVars, fetchVars, calls, written, group, histVars, boostVars, prev_interval, unloaded, fired, last_write_end>>

\* the queued worker gets request_lock
WorkerLockAcquire ==
    /\ worker_pc = "lock"
    /\ request_lock = "free"
    /\ Head(lock_waiters) = "worker"
    /\ WorkerAt(worker_item[1], RateLimitLocked("worker", Tail(lock_waiters)))
    /\ UNCHANGED <<storeVars, debVars, coordVars, entryVars, authVars, mgrVars, fetchVars, futures, calls, written, notified, group, histVars, boostVars, prev_interval, unloaded, fired, last_write_end>>

\* the rate-limit sleep of the worker is over: record the request, issue the POST
WorkerRateLimitWake ==
    /\ worker_pc = "sleep"
    /\ now >= worker_wake
    /\ WorkerAt(worker_item[1], [stage |-> "http", lock |-> "free", waiters |-> lock_waiters, last |-> now, wake |-> None])
    /\ UNCHANGED <<storeVars, debVars, coordVars, entryVars, authVars, mgrVars, fetchVars, futures, calls, written, notified, group, histVars, boostVars, prev_interval, unloaded, fired, last_write_end>>

\* answers of the cloud to the write POST
PostStatuses == {200, 429, 500}

\* the write POST gets its answer: _execute_write ends, then the worker's
\* except / else / finally
PostResponse ==
    /\ worker_pc = "http"
    /\ \E status \in PostStatuses :
        LET item == worker_item[1]
        IN  IF status = 200
            THEN /\ WriteDone(item, "success", write_in_flight)
                 /\ cooldown_until' = SetCooldown(cooldown_until, POST_WRITE_COOLDOWN_SECONDS + item.extra_delay)
                 /\ write_quiet_until' = now + POST_WRITE_COOLDOWN_SECONDS
                 /\ IF item.kind = "schedule"
                    THEN \E j \in Uniform(DEBOUNCE_JITTER_MIN, DEBOUNCE_JITTER_MAX) :
                            /\ SetDeb(ScheduleDebouncedRefresh(Deb, DebounceTarget(SCHEDULE_REFRESH_DELAY, j, cooldown_until')))
                            /\ max_target' = Max(max_target, DebounceTarget(SCHEDULE_REFRESH_DELAY, j, cooldown_until'))
                    ELSE UNCHANGED <<refresh_deadline, debounce_refresh_task, debounce_tasks, max_target>>
            ELSE /\ WriteDone(item, "error", write_in_flight)
                 /\ cooldown_until' = IF status = 429 THEN SetCooldown(cooldown_until, ConfiguredInterval) ELSE cooldown_until
                 /\ UNCHANGED <<write_quiet_until, refresh_deadline, debounce_refresh_task, debounce_tasks, max_target>>
    /\ last_write_end' = now
    /\ UNCHANGED <<no_read_until, last_success_fetch_ts, rlVars, refresh_requested, coordVars, entryVars, authVars, mgrVars, fetchVars, calls, written, posted, group, histVars, boostVars, prev_interval, unloaded, fired>>

\* ------------------------------------------------------- debounced refresh
\* _refresh_later after its sleep: reschedule inside a no-read window or a
\* cooldown, drop after a recent fetch, else async_request_refresh with
\* allow_debounce=False, which asks the coordinator unless a read is to be deferred
DebounceFire ==
    \E t \in debounce_tasks :
        /\ now >= t.target
        /\ IF InNoReadWindow \/ CooldownRemaining > 0
           THEN /\ \E j \in Uniform(DEBOUNCE_JITTER_MIN, DEBOUNCE_JITTER_MAX) :
                      /\ SetDeb(ScheduleDebouncedRefresh(ClearDebounce(Fired(Deb, t)), DebounceTarget(0, j, cooldown_until)))
                      /\ max_target' = DebounceTarget(0, j, cooldown_until)
                /\ fired' = "rescheduled"
                /\ UNCHANGED refresh_requested
           ELSE /\ SetDeb(ClearDebounce(Fired(Deb, t)))
                /\ max_target' = None
                /\ IF last_success_fetch_ts # None /\ now - last_success_fetch_ts < MIN_REFRESH_GUARD_SECONDS
                   THEN fired' = "dropped" /\ UNCHANGED refresh_requested
                   ELSE IF ShouldDeferRead
                   THEN fired' = "deferred" /\ UNCHANGED refresh_requested
                   ELSE fired' = "requested" /\ refresh_requested' = TRUE
        /\ UNCHANGED <<storeVars, rlVars, coordVars, entryVars, authVars, mgrVars, workerVars, fetchVars, futVars, histVars, boostVars, prev_interval, unloaded, last_write_end>>

\* ------------------------------------------------------------ poll interval
\* seconds given to async_set_refresh_interval: below REFRESH_MIN, within the
\* limits, above REFRESH_MAX
RefreshInputs == {120, 1200, 7200}

\* faulty variant: the clamp without its lower limit
ClampNoFloor(seconds) == Min(REFRESH_MAX, seconds)

\* the clamp of async_set_refresh_interval
ClampInterval(seconds) == Max(REFRESH_MIN, Min(REFRESH_MAX, seconds))

\* coordinator.update_interval after async_set_refresh_interval, seconds
\* being the clamped value and boost `"boost_task" in store`
LiveInterval(cur_s, seconds, boost) == IF ~boost THEN seconds ELSE cur_s

\* async_set_refresh_interval, called by the refresh-interval number entity
AsyncSetRefreshInterval ==
    /\ loaded
    /\ CallsMade < MaxCalls
    /\ interval_sets' = interval_sets + 1
    /\ \E seconds \in RefreshInputs :
          /\ update_interval' = LiveInterval(update_interval, ClampInterval(seconds), BoostTaskInStore)
          /\ options_interval' = ClampInterval(seconds)
    /\ UNCHANGED <<storeVars, rlVars, debVars, data, id_token, refresh_token, token_expired, authVars, mgrVars, workerVars, fetchVars, futVars, histVars, boost_task, boost_tasks, boosts, boost_ts, prev_interval, unloaded, fired, last_write_end>>

\* the poll interval _async_boost_refresh_interval leaves
BoostedInterval(cur_s) == IF cur_s > BOOST_INTERVAL THEN BOOST_INTERVAL ELSE cur_s

\* the two store entries of the boost, as one value
Boost == [task |-> boost_task, tasks |-> boost_tasks]

\* faulty variant: the stored reset task is not cancelled
ScheduleResetKeep(b) ==
    LET id == NewTaskId(b.tasks)
    IN  [task |-> id, tasks |-> b.tasks \cup {[id |-> id, target |-> now + BOOST_DURATION]}]

\* the stored reset task is cancelled and a new one put to sleep for BOOST_DURATION
ScheduleReset(b) ==
    LET kept == IF b.task # None THEN Cancel(b.tasks, b.task) ELSE b.tasks
        id == NewTaskId(kept)
    IN  [task |-> id, tasks |-> kept \cup {[id |-> id, target |-> now + BOOST_DURATION]}]

\* _async_boost_refresh_interval: the coordinator is in the store from
\* get_coordinator on
AsyncBoostRefreshInterval ==
    /\ CallsMade < MaxCalls
    /\ boosts' = boosts + 1
    /\ update_interval' = BoostedInterval(update_interval)
    /\ boost_task' = ScheduleReset(Boost).task
    /\ boost_tasks' = ScheduleReset(Boost).tasks
    /\ boost_ts' = now
    /\ UNCHANGED <<storeVars, rlVars, debVars, data, entryVars, authVars, mgrVars, workerVars, fetchVars, futVars, histVars, interval_sets, prev_interval, unloaded, fired, last_write_end>>

\* _reset_interval after its sleep: the configured interval is back, the
\* boost marker leaves the store
ResetInterval ==
    \E t \in boost_tasks :
        /\ now >= t.target
        /\ update_interval' = ConfiguredInterval
        /\ boost_tasks' = boost_tasks \ {t}
        /\ boost_task' = None
        /\ UNCHANGED <<storeVars, rlVars, debVars, data, entryVars, authVars, mgrVars, workerVars, fetchVars, futVars, histVars, boosts, interval_sets, boost_ts, prev_interval, unloaded, fired, last_write_end>>

\* --------------------------------------------------------------------- time
\* wake-up times of the sleeping coroutines
Timers ==
    {t.target : t \in debounce_tasks}
    \cup (IF worker_pc \in {"cooldown", "sleep", "gap"} THEN {worker_wake} ELSE {})
    \cup (IF fetch_pc = "sleep" THEN {fetch_wake} ELSE {})
    \cup {t.target : t \in boost_tasks}

\* times at which a test of the code changes its answer
Thresholds ==
    Timers \cup {cooldown_until, write_quiet_until}
    \cup (IF no_read_until # None THEN {no_read_until} ELSE {})
    \cup (IF last_request_ts # None THEN {last_request_ts + MIN_REQUEST_INTERVAL} ELSE {})
    \cup (IF last_success_fetch_ts # None THEN {last_success_fetch_ts + MIN_REFRESH_GUARD_SECONDS} ELSE {})

\* a stored reading after d seconds: d lower, but not below its floor
Later(reading, d, floor) == IF reading = None THEN None ELSE Max(now + floor, reading - d)

\* the sleeping tasks after d seconds
TasksLater(tasks, d) == {[id |-> t.id, target |-> t.target - d] : t \in tasks}

\* time passes, up to the next such time; a sleeper wakes when its time has
\* come.  Once no coroutine sleeps and no call is left to come, nothing reads
\* the clock again.
Tick ==
    /\ \A t \in Timers : now < t
    /\ Timers # {} \/ CallsMade < MaxCalls
    /\ \E t \in Thresholds :
        /\ t > now
        /\ \A u \in Thresholds : u > now => t <= u
        /\ LET d == t - now
           IN  /\ cooldown_until' = Later(cooldown_until, d, 0)
               /\ write_quiet_until' = Later(write_quiet_until, d, 0)
               /\ no_read_until' = Later(no_read_until, d, 0)
               /\ last_request_ts' = Later(last_request_ts, d, 0 - MIN_REQUEST_INTERVAL)
               /\ last_success_fetch_ts' = Later(last_success_fetch_ts, d, 0 - MIN_REFRESH_GUARD_SECONDS)
               /\ refresh_deadline' = Later(refresh_deadline, d, 0)
               /\ max_target' = Later(max_target, d, 0)
               /\ debounce_tasks' = TasksLater(debounce_tasks, d)
               /\ worker_wake' = Later(worker_wake, d, 0)
               /\ fetch_wake' = Later(fetch_wake, d, 0)
               /\ boost_tasks' = TasksLater(boost_tasks, d)
               /\ boost_ts' = Later(boost_ts, d, 0 - BOOST_DURATION)
               /\ last_write_end' = Later(last_write_end, d, 0 - MIN_REFRESH_GUARD_SECONDS)
    /\ UNCHANGED <<write_in_flight, request_lock, lock_waiters, debounce_refresh_task, refresh_requested, coordVars, entryVars, authVars, mgrVars, worker_pc, worker_item, fetch_pc, fetch_req, loaded, futVars, histVars, boost_task, boosts, interval_sets, prev_interval, unloaded, fired>>

\* ------------------------------------------------------------ specification
Next ==
    \/ FetchStart
    \/ FetchLockAcquire
    \/ FetchRateLimitWake
    \/ RefreshResponse
    \/ LoginResponse
    \/ GetResponse
    \/ SetupRetry
    \/ SetPoolValue
    \/ SetHeatingValue
    \/ HandleSetSchedule
    \/ HandleDisableSchedule
    \/ WorkerDequeue
    \/ WorkerCooldownWake
    \/ WorkerLockAcquire
    \/ WorkerRateLimitWake
    \/ PostResponse
    \/ DebounceFire
    \/ AsyncSetRefreshInterval
    \/ AsyncBoostRefreshInterval
    \/ ResetInterval
    \/ Tick

Spec == Init /\ [][Next]_vars

\* What the event loop, the network and the clock do on their own: a task
\* that is ready runs, a request that was sent is answered, time goes on.
Progress ==
    \/ FetchLockAcquire
    \/ FetchRateLimitWake
    \/ RefreshResponse
    \/ LoginResponse
    \/ GetResponse
    \/ WorkerDequeue
    \/ WorkerCooldownWake
    \/ WorkerLockAcquire
    \/ WorkerRateLimitWake
    \/ PostResponse
    \/ DebounceFire
    \/ ResetInterval
    \/ Tick

\* As long as one of these can happen, one of them does.  The calls from
\* outside (async_update_data, the three write calls, a setup retry) are under
\* no obligation to happen.
Fairness == WF_vars(Progress)

FairSpec == Spec /\ Fairness


\* ------------------------------------------------------------- loaded entry
\* The entry as async_setup_entry leaves it when the first refresh of
\* get_coordinator was answered 200 and MIN_REFRESH_GUARD_SECONDS have gone
\* by: the reported state is the snapshot, the login stored its tokens, the
\* default interval is in force, nothing is queued.  The call counters start
\* at zero: they count the calls of the behaviour.
InitLoaded ==
    /\ cooldown_until = 0
    /\ write_quiet_until = 0
    /\ no_read_until = None
    /\ write_in_flight = 0
    /\ last_success_fetch_ts = now - MIN_REFRESH_GUARD_SECONDS
    /\ last_request_ts = now - MIN_REQUEST_INTERVAL
    /\ request_lock = "free"
    /\ lock_waiters = <<>>
    /\ refresh_deadline = None
    /\ debounce_refresh_task = None
    /\ debounce_tasks = {}
    /\ data \in ReportedChoices
    /\ options_interval = REFRESH_DEFAULT
    /\ refresh_token = TRUE
    /\ update_interval = ConfiguredInterval
    /\ refresh_requested = FALSE
    /\ id_token = TRUE
    /\ token_expired = FALSE
    /\ last_auth_error = "None"
    /\ authentication_failed = FALSE
    /\ pending = EmptyPending
    /\ order = <<>>
    /\ worker_pc = "none"
    /\ worker_item = <<>>
    /\ worker_wake = None
    /\ fetch_pc = "idle"
    /\ fetch_req = "none"
    /\ fetch_wake = None
    /\ loaded = TRUE
    /\ futures = [f \in Futures |-> "unborn"]
    /\ calls = 0
    /\ fetches = 0
    /\ fetch_result = "returned"
    /\ get_answer = "ok"
    /\ notified = [f \in Futures |-> 0]
    /\ posted = [f \in Futures |-> 0]
    /\ group = [f \in Futures |-> 0]
    /\ written = [f \in Futures |-> "none"]
    /\ get_stale = FALSE
    /\ applied_stale = FALSE
    /\ expiry_reported = FALSE
    /\ boost_task = None
    /\ boost_tasks = {}
    /\ boosts = 0
    /\ interval_sets = 0
    /\ boost_ts = None
    /\ prev_interval = ConfiguredInterval
    /\ max_target = None
    /\ unloaded = FALSE
    /\ fired = "none"
    /\ last_write_end = None

\* the write path of a loaded entry on its own: the write calls, the worker,
\* the debounced refresh it schedules and the clock.  With no fetch running
\* request_lock is never contended, and the writes being WRITE_GAP_SECONDS
\* apart, _async_rate_limit never has to sleep.
WriteNext ==
    \/ SetPoolValue
    \/ SetHeatingValue
    \/ HandleSetSchedule
    \/ HandleDisableSchedule
    \/ WorkerDequeue
    \/ WorkerCooldownWake
    \/ PostResponse
    \/ DebounceFire
    \/ Tick

WriteSpec == InitLoaded /\ [][WriteNext]_vars

\* the reads and the writes of a loaded entry together: polls by the
\* coordinator, with the token refresh and the login they may need, beside
\* the pool and heating writes, the worker and the debounced refresh
ReadWriteNext ==
    \/ FetchStart
    \/ FetchLockAcquire
    \/ FetchRateLimitWake
    \/ RefreshResponse
    \/ LoginResponse
    \/ GetResponse
    \/ SetPoolValue
    \/ SetHeatingValue
    \/ WorkerDequeue
    \/ WorkerCooldownWake
    \/ WorkerLockAcquire
    \/ WorkerRateLimitWake
    \/ PostResponse
    \/ DebounceFire
    \/ Tick

ReadWriteSpec == InitLoaded /\ [][ReadWriteNext]_vars

\* ------------------------------------------------------------------ unload
\* async_unload_entry with the platforms unloaded (result True): the store of
\* the entry is deleted from hass.data, so that _get_entry_store starts from
\* an empty dict afterwards.  The coordinator, the write manager and the
\* tasks are objects of their own: the handler does nothing to them.
AsyncUnloadEntry ==
    /\ loaded
    /\ ~unloaded
    /\ unloaded' = TRUE
    /\ cooldown_until' = 0
    /\ write_quiet_until' = 0
    /\ no_read_until' = None
    /\ write_in_flight' = 0
    /\ last_success_fetch_ts' = None
    /\ last_request_ts' = None
    /\ request_lock' = "free"
    /\ lock_waiters' = <<>>
    /\ refresh_deadline' = None
    /\ debounce_refresh_task' = None
    /\ boost_task' = None
    /\ UNCHANGED <<debounce_tasks, refresh_requested, max_target, coordVars, entryVars, authVars, mgrVars, workerVars, fetchVars, loaded, futVars, histVars, boost_tasks, boosts, interval_sets, boost_ts, prev_interval, fired, last_write_end>>

\* the entry up to its unload and the unload itself; what the surviving
\* objects do on the re-created store is not followed
UnloadNext ==
    \/ ~unloaded /\ FetchStart
    \/ ~unloaded /\ FetchLockAcquire
    \/ ~unloaded /\ FetchRateLimitWake
    \/ ~unloaded /\ RefreshResponse
    \/ ~unloaded /\ LoginResponse
    \/ ~unloaded /\ GetResponse
    \/ ~unloaded /\ SetupRetry
    \/ ~unloaded /\ SetPoolValue
    \/ ~unloaded /\ SetHeatingValue
    \/ ~unloaded /\ HandleSetSchedule
    \/ ~unloaded /\ HandleDisableSchedule
    \/ ~unloaded /\ WorkerDequeue
    \/ ~unloaded /\ WorkerCooldownWake
    \/ ~unloaded /\ WorkerLockAcquire
    \/ ~unloaded /\ WorkerRateLimitWake
    \/ ~unloaded /\ PostResponse
    \/ ~unloaded /\ DebounceFire
    \/ ~unloaded /\ AsyncSetRefreshInterval
    \/ ~unloaded /\ AsyncBoostRefreshInterval
    \/ ~unloaded /\ ResetInterval
    \/ ~unloaded /\ Tick
    \/ AsyncUnloadEntry

UnloadSpec == Init /\ [][UnloadNext]_vars


\* ------------------------------------------------------------------ claims
\* the futures a behaviour of Spec can create: its first call is the first
\* refresh, the write calls come after it
LoadFutures == 1..(MaxCalls - 1)

\* outcomes of a future that is done
Resolved == {"success", "error"}

\* the callers whose items were coalesced into the pending item that the
\* caller of future g created
Group(g) == {f \in Futures : group[f] = g}

\* the last of the submitted payloads that gives leaf l, Absent if none does
LastGiven(subs, l) ==
    LET given == {i \in 1..Len(subs) : subs[i][l] # Absent}
    IN  IF given = {} THEN Absent ELSE subs[CHOOSE i \in given : \A j \in given : j <= i][l]

\* what the claim expects an item to carry: the submitted payloads merged in
\* submission order under merge_func, the last submitted payload without one
ExpectedPayload(item) ==
    IF item.merge_func
    THEN [l \in Leaves |-> LastGiven(item.subs, l)]
    ELSE item.subs[Len(item.subs)]

\* the worker is inside _execute_write
InExecuteWrite == worker_pc \in {"lock", "sleep", "http"}

\* some item, queued or dequeued, carries future f
Carried(f) ==
    \/ \E k \in DOMAIN pending : f \in FutureSet(pending[k])
    \/ \E i \in 1..Len(worker_item) : f \in FutureSet(worker_item[i])

\* this step starts a call of async_update_data
FetchCalled == fetches' = fetches + 1

\* this step issues the device-state GET
GetIssued == fetch_pc' = "http" /\ fetch_req' = "get" /\ ~(fetch_pc = "http" /\ fetch_req = "get")

\* this step is the answer to the device-state GET
GetAnswered == fetch_pc = "http" /\ fetch_req = "get" /\ fetch_pc' = "idle"

\* C1: the callers coalesced into one pending item (same key, enqueued before
\* the worker dequeued it) get one POST between them, never two; the POST
\* carries all of them and the merge of their payloads in submission order
\* (merge_func if the item has one, else the last payload); their futures are
\* resolved alike, and a resolved future has had its one POST.
C1_Coalesced ==
    /\ \A f, g \in Futures :
          (group[f] # 0 /\ group[f] = group[g]) =>
              (posted[f] = posted[g] /\ posted[f] <= 1 /\ futures[f] = futures[g])
    /\ \A f \in Futures : futures[f] \in Resolved => posted[f] = 1
    /\ worker_pc = "http" =>
          /\ worker_item[1].payload = ExpectedPayload(worker_item[1])
          /\ FutureSet(worker_item[1]) = Group(worker_item[1].futures[1])

\* C1 witness: the POST of a schedule item that two callers were coalesced
\* into, carrying the start of the one and the end of the other
C1_Witness ==
    /\ worker_pc = "http"
    /\ Len(worker_item[1].futures) = 2
    /\ worker_item[1].merge_func
    /\ worker_item[1].payload["timer.start"] # Absent
    /\ worker_item[1].payload["timer.end"] # Absent

\* C2: write_in_flight is 0 or 1; it is 0 whenever the worker is not inside
\* _execute_write, and while the worker is inside it, it is 1 and counts the
\* one item the worker holds.
C2_OneWriteInFlight ==
    /\ write_in_flight \in {0, 1}
    /\ ~InExecuteWrite => write_in_flight = 0
    /\ InExecuteWrite => (write_in_flight = 1 /\ Len(worker_item) = 1)

\* C2 witness: a POST is in flight while another item waits in the queue
C2_Witness == worker_pc = "http" /\ write_in_flight = 1 /\ order # <<>>

\* C3 as stated: no item of key K is queued while an item of key K, already
\* dequeued, is being executed or waits out its cooldown.
C3_OnePerKey == \A i \in 1..Len(worker_item) : worker_item[i].key \notin DOMAIN pending

\* C3 amended: the queue holds at most one item per key (the keys of _order
\* are distinct and are exactly the keys of _pending, each item under its own
\* key), and at most one dequeued item is with the worker.
C3_OneQueuedPerKey ==
    /\ Len(worker_item) <= 1
    /\ \A i, j \in 1..Len(order) : order[i] = order[j] => i = j
    /\ {order[i] : i \in 1..Len(order)} = DOMAIN pending
    /\ \A k \in DOMAIN pending : pending[k].key = k

\* C3 witness: an item of the key the worker is busy with is queued
C3_Witness == worker_item # <<>> /\ worker_item[1].key \in DOMAIN pending /\ InExecuteWrite

\* C4: every caller that enqueued is notified exactly once: no future is
\* resolved twice, a resolved future was resolved once and after its POST, a
\* pending future is always carried by an item the worker has or will get to,
\* and, the network answering and time going on, every pending future is
\* eventually resolved.
C4_NotifiedOnce ==
    /\ [](\A f \in Futures :
            /\ notified[f] <= 1
            /\ futures[f] \in Resolved => (notified[f] = 1 /\ posted[f] = 1)
            /\ futures[f] = "pending" => Carried(f)
            /\ f \notin LoadFutures => futures[f] = "unborn")
    /\ \A f \in LoadFutures : (futures[f] = "pending") ~> (futures[f] \in Resolved)

\* C4 witness: a caller that was merged into another caller's item has been
\* notified, with an exception
C4_Witness == \E f \in Futures : group[f] # 0 /\ group[f] # f /\ notified[f] = 1 /\ futures[f] = "error"

\* the latest target a deferred async_update_data call can ask for
DeferHi == Max(now + READ_DEFERRAL_JITTER_MAX, cooldown_until) + DEBOUNCE_JITTER_MAX

\* the earliest one
DeferLo == Max(now, cooldown_until) + DEBOUNCE_JITTER_MIN

\* C5, one step
C5_Step ==
    (FetchCalled /\ ShouldDeferRead /\ data # EmptyData) =>
        /\ fetch_pc' = "idle"
        /\ fetch_result' # "raised"
        /\ UNCHANGED <<last_request_ts, request_lock, lock_waiters, get_answer>>
        /\ data' = data
        /\ debounce_tasks' = {[id |-> debounce_refresh_task', target |-> refresh_deadline']}
        /\ refresh_deadline' >= DeferLo
        /\ refresh_deadline # None => refresh_deadline' >= refresh_deadline
        /\ (refresh_deadline # None /\ refresh_deadline >= DeferHi) =>
               UNCHANGED <<refresh_deadline, debounce_refresh_task, debounce_tasks>>

\* C5: a call of async_update_data inside a no-read window, during write
\* activity or during a cooldown, with a snapshot cached, makes no request,
\* returns the snapshot as it is and leaves exactly one debounced refresh
\* asleep: the one that was scheduled, untouched, if its deadline is at or
\* beyond any target the call can ask for, and never an earlier one.
C5_DeferredFetch == [][C5_Step]_vars

\* C5 witness: a call was deferred with a snapshot cached while a refresh was
\* scheduled further out than any target the call could ask for
C5_Witness ==
    /\ fetch_result = "deferred"
    /\ data # EmptyData
    /\ Cardinality(debounce_tasks) = 1
    /\ refresh_deadline > Max(now, cooldown_until) + READ_DEFERRAL_JITTER_MAX + DEBOUNCE_JITTER_MAX

\* C6 as stated: when the device-state GET is issued, no deferral window is
\* open: no no-read window, no write in flight, no write quiet time, no cooldown.
C6_NoGetInWindow == [][GetIssued => ~ShouldDeferRead']_vars

\* C7 as stated: no answer to a GET that was issued before a write completed
\* is applied to the snapshot after that write's optimistic patch.
C7_NoStaleOverwrite == ~applied_stale

C9_BackoffWithCache ==
    [][(GetAnswered /\ get_answer' = "rate_limited" /\ data # EmptyData) =>
          /\ fetch_result' = "returned"
          /\ data' = data
          /\ update_interval' = Min(update_interval * 2, REFRESH_MAX)
          /\ cooldown_until' >= now + update_interval']_vars

\* C9 witness: a rate-limited call has returned the cached snapshot and the
\* doubled interval was cut to REFRESH_MAX
C9_Witness ==
    /\ fetch_pc = "idle"
    /\ get_answer = "rate_limited"
    /\ fetch_result = "returned"
    /\ data # EmptyData
    /\ options_interval * 2 > REFRESH_MAX
    /\ update_interval = REFRESH_MAX
    /\ cooldown_until = now + REFRESH_MAX

\* C10 as stated: once a GET has failed with "token has expired", no GET is
\* issued before a token refresh or login has stored a new token.
C10_RefreshAfterExpiry == (fetch_pc = "http" /\ fetch_req = "get") => ~expiry_reported

\* this step is a call of set_pool_value
PoolWriteCalled == calls' = calls + 1 /\ written'[calls + 1] = "pool"

\* the value the call of this step was given: the payload it submitted
PoolValueGiven ==
    LET subs == pending'["pool:orp_sp"].subs
    IN  subs[Len(subs)]["orp_sp"]

\* C11, one step
C11_Step ==
    /\ PoolWriteCalled =>
          /\ PoolValueGiven # Absent
          /\ data'["equipment.swc_0.orp_sp"] = PoolValueGiven
          /\ posted' = posted
          /\ UNCHANGED <<last_request_ts, request_lock, lock_waiters, fetch_pc, fetch_req>>
          /\ worker_pc' # "http" \/ worker_pc = "http"
    /\ (GetAnswered /\ get_answer' = "ok") => data' \in ReportedChoices

\* C11: set_pool_value puts the value it is given at equipment.swc_0.orp_sp
\* of the cached snapshot in the step of the call, in which no request is
\* issued; a device-state GET that succeeds makes the snapshot the state the
\* server reported, so that after the write has completed and a later fetch
\* has succeeded the path holds the server's value.
C11_RoundTrip == [][C11_Step]_vars

\* C11 witness: a pool write has completed, and a fetch whose GET was issued
\* after that has succeeded and left the server's value at the path
C11_Witness ==
    /\ \E f \in Futures : written[f] = "pool" /\ futures[f] = "success"
    /\ \A f \in Futures : futures[f] \in {"unborn", "success"}
    /\ fetches = 2
    /\ fetch_pc = "idle"
    /\ fetch_result = "returned"
    /\ get_answer = "ok"
    /\ ~get_stale
    /\ data["equipment.swc_0.orp_sp"] = "reported"

\* this step is the answer to the write POST
PostAnswered == worker_pc = "http" /\ worker_pc' = "gap"

\* C12, one step.  Stored times are readings relative to the clock, so a step
\* of the clock alone (Tick) lowers the reading and leaves the time it stands
\* for; every other step happens at one instant.
C12_Step ==
    /\ Tick \/ cooldown_until' >= cooldown_until
    /\ (GetAnswered /\ get_answer' = "rate_limited") =>
          cooldown_until' = Max(cooldown_until, now + update_interval')
    /\ (PostAnswered /\ \E f \in FutureSet(worker_item[1]) : futures'[f] = "success") =>
          cooldown_until' = Max(cooldown_until, now + POST_WRITE_COOLDOWN_SECONDS + worker_item[1].extra_delay)
    /\ (PostAnswered /\ cooldown_until' # cooldown_until) =>
          cooldown_until' \in {now + POST_WRITE_COOLDOWN_SECONDS + worker_item[1].extra_delay, now + ConfiguredInterval}

\* C12: cooldown_until never goes down: each _set_cooldown(seconds) leaves it
\* at max(previous value, now + seconds), so a call with a smaller duration
\* does not shorten it, and no other operation lowers it.
C12_CooldownMonotonic == [][C12_Step]_vars

\* C12 witness: a write succeeded while a longer cooldown was running, and
\* its _set_cooldown left the longer one
C12_Witness ==
    /\ worker_pc = "gap"
    /\ worker_wake = now + WRITE_GAP_SECONDS
    /\ write_quiet_until = now + POST_WRITE_COOLDOWN_SECONDS
    /\ cooldown_until > now + POST_WRITE_COOLDOWN_SECONDS + DELAY_REFRESH_SECONDS

\* a boost is active: its reset task is pending
BoostActive == boost_task # None

\* C13, one step
C13_Step ==
    /\ (GetAnswered /\ get_answer' = "rate_limited" /\ data # EmptyData) =>
          update_interval' = Min(update_interval * 2, REFRESH_MAX)
    /\ (GetAnswered /\ get_answer' = "ok" /\ ~BoostActive) =>
          update_interval' = ConfiguredInterval
    /\ (GetAnswered /\ get_answer' = "ok" /\ BoostActive) =>
          update_interval' = update_interval

\* C13: the poll interval is the configured one or a backoff above it unless
\* a boost is active; each rate-limited GET with a snapshot cached doubles it
\* up to REFRESH_MAX; a successful GET sets it back to the configured
\* interval, unless a boost is active, and then leaves it as it is.
C13_IntervalMachine ==
    /\ [](~BoostActive => update_interval >= ConfiguredInterval)
    /\ [][C13_Step]_vars

\* C13 witness: a successful fetch has set a backoff back to the configured interval
C13_Witness ==
    /\ fetch_pc = "idle"
    /\ get_answer = "ok"
    /\ fetch_result = "returned"
    /\ boosts = 0
    /\ interval_sets = 0
    /\ prev_interval = Min(ConfiguredInterval * 2, REFRESH_MAX)
    /\ prev_interval > ConfiguredInterval
    /\ update_interval = ConfiguredInterval

\* C14 as stated: while a boost is active no answer to the GET, rate limited
\* or successful, moves the poll interval away from BOOST_INTERVAL.
C14_BoostKept ==
    [][(GetAnswered /\ BoostActive /\ update_interval = BOOST_INTERVAL /\ get_answer' \in {"ok", "rate_limited"}) =>
          update_interval' = BOOST_INTERVAL]_vars

\* this step is the end of a boost
BoostEnded == BoostActive /\ ~BoostActive'

\* C15, one step
C15_Step ==
    BoostEnded =>
        /\ now - boost_ts = BOOST_DURATION
        /\ update_interval' = ConfiguredInterval
        /\ boost_tasks' = {}

\* C15: one reset task is asleep while a boost is active, due BOOST_DURATION
\* after the latest trigger, and none otherwise (a re-trigger cancels the
\* earlier one); the boost ends at that time and not before, with the poll
\* interval at the configured one and the marker out of the store; and, time
\* going on, every boost ends.
C15_BoostExpires ==
    /\ [](IF BoostActive
          THEN boost_tasks = {[id |-> boost_task, target |-> boost_ts + BOOST_DURATION]}
          ELSE boost_tasks = {})
    /\ [][C15_Step]_vars
    /\ BoostActive ~> (~BoostActive /\ boosts > 0)

\* C15 witness: a boost that was re-triggered has just ended, BOOST_DURATION
\* after its latest trigger
C15_Witness ==
    /\ boosts = 2
    /\ ~BoostActive
    /\ boost_ts = now - BOOST_DURATION
    /\ update_interval = ConfiguredInterval

\* this step is a call of async_set_refresh_interval
IntervalSetCalled == interval_sets' = interval_sets + 1

\* a backoff overrides the configured interval
BackoffActive == ~BoostActive /\ update_interval > ConfiguredInterval

\* C16 as stated: async_set_refresh_interval stores a value within
\* [REFRESH_MIN, REFRESH_MAX] in the options and makes it the live poll
\* interval, unless a boost or a backoff overrides the interval, and then
\* leaves the live interval as it is.
C16_LiveUnlessOverridden ==
    [][IntervalSetCalled =>
          /\ options_interval' >= REFRESH_MIN
          /\ options_interval' <= REFRESH_MAX
          /\ IF BoostActive \/ BackoffActive
             THEN update_interval' = update_interval
             ELSE update_interval' = options_interval']_vars

\* a coroutine is inside _async_rate_limit: queued on the lock or asleep with it
FetchInRateLimit == fetch_pc \in {"lock", "sleep"}

WorkerInRateLimit == worker_pc \in {"lock", "sleep"}

\* C17, one step: last_request_ts is left alone, or set to the current time
\* when none was recorded or the recorded one is MIN_REQUEST_INTERVAL old
C17_Step ==
    \/ Tick
    \/ last_request_ts' = last_request_ts
    \/ /\ last_request_ts' = now
       /\ last_request_ts = None \/ now - last_request_ts >= MIN_REQUEST_INTERVAL

\* C17: two consecutive values of last_request_ts are at least
\* MIN_REQUEST_INTERVAL apart, whichever of the callers of _async_rate_limit
\* (fetch, token refresh, login, write) recorded them and however they
\* interleave; the lock is held by the coroutine that sleeps and by no other;
\* and _async_rate_limit only delays: every caller gets to issue its request.
C17_MinSpacing ==
    /\ [][C17_Step]_vars
    /\ [](/\ request_lock = "fetch" <=> fetch_pc = "sleep"
          /\ request_lock = "worker" <=> worker_pc = "sleep"
          /\ request_lock \in {"free", "fetch", "worker"})
    /\ FetchInRateLimit ~> (fetch_pc = "http")
    /\ WorkerInRateLimit ~> (worker_pc = "http")

\* C17 witness: the fetch has just recorded its request and the worker,
\* holding the lock, sleeps out the whole of MIN_REQUEST_INTERVAL
C17_Witness ==
    /\ fetch_pc = "http"
    /\ last_request_ts = now
    /\ worker_pc = "sleep"
    /\ request_lock = "worker"
    /\ worker_wake = now + MIN_REQUEST_INTERVAL

\* C18 as stated: no two HTTP requests of the device are in flight at the
\* same time.
C18_OneRequestInFlight == ~(fetch_pc = "http" /\ worker_pc = "http")

\* this step is the firing of the pending debounce task
DebounceFired == \E t \in debounce_tasks : now >= t.target /\ t \notin debounce_tasks'

\* C19: at most one debounced refresh is pending: the task the store names,
\* due at refresh_deadline, and none when the store names none; the pending
\* deadline is the latest target asked for since the task last fired; and,
\* from one instant to the same instant, a pending deadline stays or moves
\* later until its task fires.
C19_OneDebounce ==
    /\ [](/\ Cardinality(debounce_tasks) <= 1
          /\ IF refresh_deadline # None
             THEN debounce_tasks = {[id |-> debounce_refresh_task, target |-> refresh_deadline]}
             ELSE debounce_tasks = {} /\ debounce_refresh_task = None
          /\ refresh_deadline = max_target)
    /\ [][Tick \/ DebounceFired \/ refresh_deadline = None \/ refresh_deadline' >= refresh_deadline]_vars

\* C19 witness: a pending task was replaced by one for a later target
C19_Witness ==
    /\ Cardinality(debounce_tasks) = 1
    /\ debounce_refresh_task = 1
    /\ refresh_deadline = max_target
    /\ refresh_deadline >= now + SCHEDULE_REFRESH_DELAY

\* this step is the failure of the write the worker is at
WriteFailed ==
    /\ worker_item # <<>>
    /\ \E f \in FutureSet(worker_item[1]) : futures[f] = "pending" /\ futures'[f] = "error"

\* C20, one step
C20_Step ==
    WriteFailed =>
        /\ futures' = [f \in Futures |-> IF f \in FutureSet(worker_item[1]) THEN "error" ELSE futures[f]]
        /\ notified' = [f \in Futures |-> IF f \in FutureSet(worker_item[1]) THEN notified[f] + 1 ELSE notified[f]]
        /\ posted' = posted
        /\ pending' = pending
        /\ order' = order
        /\ data' = data
        /\ worker_pc' = "gap"
        /\ worker_item' = <<>>

\* C20: a write that fails rejects the futures of its item and no other,
\* leaves the queue and the cached snapshot, with its optimistic patch, as
\* they are, and is not tried again: no future is carried by more than one
\* POST and a rejected future is carried by no item.  The worker goes on: the
\* futures of the other queued keys get their POST later.
C20_FailedWrite ==
    /\ [][C20_Step]_vars
    /\ [](\A f \in Futures :
            /\ posted[f] <= 1
            /\ futures[f] = "error" => ~Carried(f)
            /\ f \notin LoadFutures => futures[f] = "unborn")
    /\ \A f \in LoadFutures : (futures[f] = "pending") ~> (posted[f] = 1)

\* C20 witness: a pool write has just failed; its patch is in the snapshot
\* and the item of another key is still queued, its future pending
C20_Witness ==
    /\ worker_pc = "gap"
    /\ worker_wake = now + WRITE_GAP_SECONDS
    /\ \E f, g \in Futures :
          /\ written[f] = "pool"
          /\ futures[f] = "error"
          /\ futures[g] = "pending"
          /\ \E k \in DOMAIN pending : g \in FutureSet(pending[k])
    /\ data["equipment.swc_0.orp_sp"] \in {w[1] : w \in PoolWrites}

\* the login of the running call fails in this step
LoginFails == fetch_pc = "http" /\ fetch_req = "login" /\ authentication_failed'

\* a failed login ends the call by raising, with no GET and the cache untouched
C21_Step ==
    /\ LoginFails =>
          /\ fetch_result' = "raised"
          /\ fetch_pc' = "idle" /\ fetch_req' = "none"
          /\ last_auth_error' \in LoginErrors
          /\ data' = data
    /\ fetch_req = "get" => fetch_req' \in {"get", "none"}

\* C21: an authentication failure in a fetch cycle (login answered non-200,
\* or without IdToken or authentication_token) makes async_update_data raise
\* for that cycle even when a cached snapshot exists: no device-state GET is
\* issued in that cycle (the login comes before the GET and the call ends at
\* the failure) and the cached snapshot is not returned in its place.
C21_AuthFailureRaises ==
    /\ [](authentication_failed => fetch_pc = "idle" /\ fetch_result = "raised")
    /\ [][C21_Step]_vars

\* a login answered without authentication_token, with a snapshot in the cache
C21_Witness ==
    /\ authentication_failed
    /\ fetch_result = "raised"
    /\ last_auth_error = "No authentication_token received"
    /\ data # EmptyData
    /\ last_success_fetch_ts # None

\* C22: after async_unload_entry succeeded, no debounce task, no boost-reset
\* task and no write worker of the entry is pending or running.
C22_NoTaskAfterUnload == unloaded => debounce_tasks = {} /\ boost_tasks = {} /\ worker_pc = "none"

\* C23: disable_schedule on a key comes to what set_schedule on that key with
\* start 00:00, end 00:00 and no speed comes to, whether the cached schedules
\* have the key or not: the same error or the same enqueued write, and the
\* same cached snapshot.
C23_DisableIsZeroWindow == loaded => DisableSchedule = SetSchedule("00:00", "00:00", Absent)

\* the key whose pending item holds future f
KeyOf(p, f) == CHOOSE k \in DOMAIN p : f \in FutureSet(p[k])

\* the queue holds the pending keys, each once, in the order of their first
\* submission; a merged submission is carried by the POST of the item it joined
QueueInOrder ==
    /\ {order[i] : i \in 1..Len(order)} = DOMAIN pending
    /\ \A i, j \in 1..Len(order) : i < j => pending[order[i]].futures[1] < pending[order[j]].futures[1]
    /\ \A f \in Futures : futures[f] # "unborn" => posted[f] = posted[group[f]] /\ posted[f] <= 1

\* enqueue appends a new key and leaves the queue alone on a merge; the
\* worker takes the head, and its POST carries the item it took
C24_Step ==
    /\ calls' = calls + 1 =>
          LET key == KeyOf(pending', calls')
          IN  order' = IF key \in DOMAIN pending THEN order ELSE Append(order, key)
    /\ order' # order /\ calls' = calls =>
          /\ worker_item = <<>> \/ worker_pc = "gap"
          /\ order' = Tail(order)
          /\ pending' = [k \in DOMAIN pending \ {Head(order)} |-> pending[k]]
          /\ worker_pc' # "gap" => worker_item' = <<pending[Head(order)]>>
    /\ posted' # posted =>
          /\ worker_item' # <<>>
          /\ \A f \in Futures : posted'[f] = posted[f] + (IF f \in FutureSet(worker_item'[1]) THEN 1 ELSE 0)

\* C24: the network writes are executed in the order in which their keys
\* were first enqueued: a new key is appended at the tail, a merge into a
\* pending key leaves its position, the worker always takes the head, and a
\* later submission for a pending key never becomes a network call of its own.
C24_FirstEnqueuedFirst == []QueueInOrder /\ [][C24_Step]_vars

\* key A, then key B, then A again while both wait: A's POST carried both
\* submissions for A and went out while B was still queued
C24_Witness ==
    /\ written[1] # written[2]
    /\ group[3] = 1
    /\ posted[1] = 1 /\ posted[3] = 1 /\ posted[2] = 0
    /\ Len(order) = 1
    /\ futures[2] = "pending"

\* the device-state GET of the running call is answered 200 in this step
ReadSucceeds == fetch_pc = "http" /\ fetch_req = "get" /\ fetch_pc' = "idle" /\ get_answer' = "ok"

\* one of the three write calls is made in this step
WriteRequested == calls' = calls + 1

NoNetworkCall ==
    /\ fetch_pc' = fetch_pc /\ fetch_req' = fetch_req /\ fetches' = fetches
    /\ worker_pc' = worker_pc /\ posted' = posted
    /\ last_request_ts' = last_request_ts

\* a task that wakes inside the no-read window or a cooldown asks for no
\* refresh, sends nothing and leaves one task behind, due at the end of the
\* cooldown (or now) plus the jitter
C26_Step ==
    DebounceFire /\ (InNoReadWindow \/ CooldownRemaining > 0) =>
        /\ refresh_requested' = refresh_requested
        /\ NoNetworkCall
        /\ Cardinality(debounce_tasks') = 1
        /\ debounce_tasks' = {[id |-> debounce_refresh_task', target |-> refresh_deadline']}
        /\ refresh_deadline' >= cooldown_until'
        /\ \E j \in Uniform(DEBOUNCE_JITTER_MIN, DEBOUNCE_JITTER_MAX) : refresh_deadline' = Max(now, cooldown_until) + j

\* C26: a debounced refresh that fires while now < no_read_until or while a
\* cooldown remains issues no refresh request and no network call, and
\* reschedules itself with a delay of zero: afterwards exactly one debounced
\* refresh is pending, with a deadline not earlier than cooldown_until.
C26_FiresInCooldown == [][C26_Step]_vars

\* a task woke in a cooldown that began after it was scheduled
C26_Witness ==
    /\ fired = "rescheduled"
    /\ ~InNoReadWindow
    /\ CooldownRemaining > 0
    /\ Cardinality(debounce_tasks) = 1
    /\ refresh_deadline >= cooldown_until
    /\ ~refresh_requested

\* the last successful fetch is older than MIN_REFRESH_GUARD_SECONDS, or there is none
GuardPassed == last_success_fetch_ts = None \/ now - last_success_fetch_ts >= MIN_REFRESH_GUARD_SECONDS

\* C27: a debounced refresh that fires outside the no-read window and outside
\* any cooldown, the last successful fetch being older than
\* MIN_REFRESH_GUARD_SECONDS (or there being none), brings a refresh request
\* to the coordinator, and the fired task schedules no further debounced
\* refresh itself.
C27_FiresIntoRefresh ==
    [][DebounceFire /\ ~InNoReadWindow /\ CooldownRemaining = 0 /\ GuardPassed =>
          refresh_requested' /\ debounce_tasks' = {} /\ refresh_deadline' = None]_vars

\* this step is the answer 200 to the write POST
WriteSucceeds == PostAnswered /\ \E f \in FutureSet(worker_item[1]) : futures'[f] = "success"

\* the largest extra delay submitted for the item
MaxDelay(item) == CHOOSE d \in {item.delays[i] : i \in 1..Len(item.delays)} : \A i \in 1..Len(item.delays) : item.delays[i] <= d

\* the two readings a successful write leaves, and what a fetch called before
\* write_quiet_until comes to
C28_Step ==
    /\ WriteSucceeds =>
          /\ worker_item[1].extra_delay = MaxDelay(worker_item[1])
          /\ cooldown_until' >= now + POST_WRITE_COOLDOWN_SECONDS + MaxDelay(worker_item[1])
          /\ write_quiet_until' = now + POST_WRITE_COOLDOWN_SECONDS
    /\ ~WriteSucceeds /\ ~Tick => write_quiet_until' = write_quiet_until
    /\ FetchCalled /\ now < write_quiet_until =>
          /\ fetch_result' = "deferred"
          /\ fetch_pc' = "idle"
          /\ last_request_ts' = last_request_ts
          /\ data' = data

\* C28: right after a write succeeded at t, cooldown_until is at least
\* t + POST_WRITE_COOLDOWN_SECONDS + extra_delay and write_quiet_until is
\* t + POST_WRITE_COOLDOWN_SECONDS, extra_delay being the largest extra delay
\* of the submissions merged into the item; and every fetch called before
\* t + POST_WRITE_COOLDOWN_SECONDS is deferred.
C28_PostWriteCooldown == [][C28_Step]_vars

\* a submission with the extra delay, then one without, merged and written:
\* the cooldown carries the extra delay of the first
C28_Witness ==
    /\ group[2] = 1
    /\ futures[1] = "success" /\ futures[2] = "success"
    /\ data["equipment.swc_0.orp_sp"] = "700"
    /\ write_quiet_until = now + POST_WRITE_COOLDOWN_SECONDS
    /\ cooldown_until = now + POST_WRITE_COOLDOWN_SECONDS + DELAY_REFRESH_SECONDS

\* what a successful write does to the debounced refresh, by kind of item
C29_Step ==
    WriteSucceeds =>
        IF worker_item[1].kind = "schedule"
        THEN /\ debounce_tasks' = {[id |-> debounce_refresh_task', target |-> refresh_deadline']}
             /\ refresh_deadline' >= now + SCHEDULE_REFRESH_DELAY
        ELSE /\ debounce_tasks' = debounce_tasks
             /\ refresh_deadline' = refresh_deadline
             /\ debounce_refresh_task' = debounce_refresh_task

\* C29: after every successful schedule write completing at t a debounced
\* refresh is pending whose deadline is at least t + SCHEDULE_REFRESH_DELAY;
\* after a successful pool or heating write the worker schedules no refresh.
C29_ScheduleRefresh == [][C29_Step]_vars

\* a schedule write has just succeeded with no refresh pending before it
C29_Witness ==
    /\ written[1] = "schedule"
    /\ futures[1] = "success"
    /\ write_quiet_until = now + POST_WRITE_COOLDOWN_SECONDS
    /\ debounce_tasks = {[id |-> 0, target |-> refresh_deadline]}
    /\ refresh_deadline = now + SCHEDULE_REFRESH_DELAY + DEBOUNCE_JITTER_MIN

\* the worker enters _execute_write, or its POST goes out, in this step
WriteStarts == (write_in_flight' > write_in_flight) \/ (posted' # posted)

\* C30: between the end of one network write (success or failure) and the
\* start of the next one of the entry at least WRITE_GAP_SECONDS go by, also
\* when the worker left on an empty queue and a later enqueue created a new one.
C30_WriteGap == [][WriteStarts /\ last_write_end # None => now - last_write_end >= WRITE_GAP_SECONDS]_vars

\* the POST of a second worker is out: the write call was made at this
\* instant, more than WRITE_GAP_SECONDS after the failed write before it
\* ended, when the first worker had left on its empty queue
C30_Witness ==
    /\ futures[1] = "error"
    /\ posted[2] = 1
    /\ worker_pc = "http"
    /\ no_read_until = now + NO_READ_WINDOW_SECONDS
    /\ last_write_end # None
    /\ now - last_write_end > WRITE_GAP_SECONDS

\* C31: at the moment a network write is started (write_in_flight goes up),
\* no cooldown remains, also when the cooldown was extended while the worker
\* slept out an earlier value of it.
C31_NoWriteInCooldown == [][write_in_flight' > write_in_flight => CooldownRemaining = 0]_vars

\* a worker task exists and is not done
WorkerRunning == worker_pc # "none"

\* this step creates a worker task
WorkerCreated == worker_pc' = "start" /\ worker_pc # "start"

\* this step is the worker's return on an empty queue
WorkerExits == WorkerRunning /\ ~WorkerRunning'

\* C32: at most one write worker is active: a worker task is created only
\* when none is running, and the running one holds at most one item; and no
\* item is stranded: whenever an item is queued a worker is running, the
\* worker leaves only on an empty queue, and an enqueue after it left
\* creates a new one.
C32_OneWorker ==
    /\ []((order # <<>> \/ DOMAIN pending # {} \/ worker_item # <<>>) => WorkerRunning)
    /\ [](Len(worker_item) <= 1)
    /\ [][(WorkerCreated => ~WorkerRunning) /\ (WorkerExits => order = <<>> /\ order' = <<>> /\ worker_item' = <<>>)]_vars

\* C32 witness: the worker has done a write and left on the empty queue, and
\* a write call made after that has created a new worker for its item
C32_Witness ==
    /\ worker_pc = "start"
    /\ futures[1] \in Resolved
    /\ futures[2] = "pending"
    /\ order # <<>>

\* the answer to the token refresh or to the login arrives in this step
AuthAnswered == fetch_pc = "http" /\ fetch_req \in {"refresh", "login"} /\ ~(fetch_pc' = fetch_pc /\ fetch_req' = fetch_req)

\* C33, one step
C33_Step ==
    /\ (FetchCalled /\ fetch_pc' # "idle") =>
          fetch_req' = (IF ~NeedsAuth(token_expired') THEN "get" ELSE IF refresh_token THEN "refresh" ELSE "login")
    /\ (fetch_req' = "login" /\ fetch_req # "login") =>
          \/ FetchCalled /\ ~refresh_token
          \/ AuthAnswered /\ fetch_req = "refresh" /\ UNCHANGED <<id_token, refresh_token, token_expired>>
    /\ (AuthAnswered /\ fetch_req = "refresh") => fetch_req' \in {"get", "login"}
    /\ (AuthAnswered /\ fetch_req = "login") => fetch_req' = "get" \/ fetch_result' = "raised"
    /\ (AuthAnswered /\ fetch_req' = "get") =>
          /\ id_token' /\ ~token_expired'
          /\ refresh_token => refresh_token'

\* C33: a fetch past the gate that finds the token missing or expired goes
\* to the refresh endpoint first if a refresh token is stored; a full login is
\* made if and only if none is stored or the refresh failed; the GET is
\* reached only with the new token and expiry stored; and a stored refresh
\* token stays when the response carries none.
C33_TokenRenewal ==
    /\ [](fetch_req = "get" => id_token /\ ~token_expired)
    /\ [][C33_Step]_vars

\* C33 witness: the refresh failed and the login is out, the refresh token
\* still stored
C33_Witness ==
    /\ fetch_pc = "http"
    /\ fetch_req = "login"
    /\ refresh_token
    /\ token_expired

\* C34: an answer to the device-state GET that is not 200 and not rate
\* limited (neither status 429 nor "Too Many Requests" in the body) makes
\* the call raise, with or without a cached snapshot; the call ends there
\* with no further request, and the poll interval, cooldown_until and
\* last_success_fetch_ts stay as they are.
C34_HardFailure ==
    [][(GetAnswered /\ get_answer' = "error") =>
          /\ fetch_result' = "raised"
          /\ fetch_pc' = "idle" /\ fetch_req' = "none"
          /\ data' = data
          /\ UNCHANGED <<update_interval, cooldown_until, last_success_fetch_ts, last_request_ts, request_lock, lock_waiters>>
          /\ UNCHANGED <<refresh_deadline, debounce_refresh_task, debounce_tasks>>]_vars

\* C34 witness: a poll of the loaded entry was answered 500 while a cooldown
\* of a write ran: the call raised, the snapshot and the cooldown are there
C34_Witness ==
    /\ fetch_pc = "idle"
    /\ get_answer = "error"
    /\ fetch_result = "raised"
    /\ data # EmptyData
    /\ last_success_fetch_ts # None
    /\ CooldownRemaining > 0
    /\ update_interval = ConfiguredInterval

\* the stored debounce task wakes at its time in this step
StoredDebounceFires == \E t \in debounce_tasks : t.id = debounce_refresh_task /\ now >= t.target /\ t \notin debounce_tasks'

\* the stored boost-reset task wakes at its time in this step
StoredResetFires == \E t \in boost_tasks : t.id = boost_task /\ now >= t.target /\ t \notin boost_tasks'

\* C35, one step: what a task does is done by the stored task, at its time
C35_Step ==
    /\ (refresh_requested' /\ ~refresh_requested) => StoredDebounceFires
    /\ (refresh_deadline # None /\ refresh_deadline' = None) => StoredDebounceFires
    /\ (debounce_refresh_task # None /\ debounce_refresh_task' = None) => StoredDebounceFires
    /\ (boost_task # None /\ boost_task' = None) => StoredResetFires
    /\ (update_interval' # update_interval /\ boost_tasks' # boost_tasks /\ boosts' = boosts) => StoredResetFires

\* C35: a debounce or boost-reset task that was cancelled because it was
\* superseded does nothing more: no task but the one the store names is
\* left to wake, so that a refresh request, a change of the poll interval by
\* a reset and the clearing of refresh_deadline, of the debounce task and of
\* the boost marker are the work of the stored task at its own time.
C35_CancelledIsInert ==
    /\ [](\A t \in debounce_tasks : t.id = debounce_refresh_task /\ t.target = refresh_deadline)
    /\ [](\A t \in boost_tasks : t.id = boost_task)
    /\ [][C35_Step]_vars

\* C35 witness: a sleeping debounce task was superseded; its replacement is
\* the one task asleep, nothing has fired and no refresh was requested
C35_Witness ==
    /\ debounce_refresh_task = 1
    /\ debounce_tasks = {[id |-> 1, target |-> refresh_deadline]}
    /\ now < refresh_deadline
    /\ fired = "none"
    /\ ~refresh_requested

\* this step is a call of update_schedule that enqueues
ScheduleWriteCalled == calls' = calls + 1 /\ written'[calls + 1] = "schedule"

\* the leaves of a schedule and the snapshot paths they are cached at
ScheduleLeaves == {"timer.start", "timer.end", "rpm"}

SchedulePath(l) == CASE l = "timer.start" -> "schedules.sch_1.timer.start" [] l = "timer.end" -> "schedules.sch_1.timer.end" [] l = "rpm" -> "schedules.sch_1.rpm"

\* the patch the call of this step submitted
PatchGiven ==
    LET subs == pending'["schedule:sch_1"].subs
    IN  subs[Len(subs)]

\* C36 as stated: a call of update_schedule leaves the cached schedule as
\* the previous one deep-merged with its patch (a leaf the patch does not
\* give stays as it was), and the cached schedule agrees with the coalesced
\* payload that is pending for the key.
C36_PatchIsDeepMerge ==
    [][ScheduleWriteCalled =>
          \A l \in ScheduleLeaves :
              /\ data'[SchedulePath(l)] = IF PatchGiven[l] # Absent THEN PatchGiven[l] ELSE data[SchedulePath(l)]
              /\ pending'["schedule:sch_1"].payload[l] # Absent =>
                     data'[SchedulePath(l)] = pending'["schedule:sch_1"].payload[l]]_vars

\* the task that wakes in this step is dropped by the recent-fetch guard
DroppedByGuard == DebounceFire /\ fired' = "dropped"

\* C37 as stated, in what it implies for the two readings: when a debounced
\* refresh that fired is dropped because the last successful fetch is less
\* than MIN_REFRESH_GUARD_SECONDS old, that fetch was not answered before the
\* most recent write completed (a fetch issued after the write completed is
\* answered after it).
C37_DroppedOnlyWhenFresh ==
    [][DroppedByGuard => (last_write_end = None \/ last_success_fetch_ts >= last_write_end)]_vars

\* get_coordinator returns the coordinator to async_setup_entry in this step
HandedOut == ~loaded /\ loaded'

\* C38 as stated: get_coordinator hands out a coordinator only at the end of
\* an initial refresh that did not raise: after a first refresh that raised,
\* a later call runs the refresh again (or raises) before it returns one.
C38_HandsOutRefreshed == [][HandedOut => (fetch_pc # "idle" /\ fetch_pc' = "idle" /\ fetch_result' # "raised")]_vars

\* C39: the poll interval is within [REFRESH_MIN, REFRESH_MAX] and not below
\* the configured interval when no boost is active, and within
\* [BOOST_INTERVAL, REFRESH_MAX] when one is, whatever the answers to the
\* GET (200, rate limited with or without a snapshot), the interval changes
\* and the boost triggers were.
C39_IntervalBounds ==
    IF BoostActive
    THEN BOOST_INTERVAL <= update_interval /\ update_interval <= REFRESH_MAX
    ELSE /\ REFRESH_MIN <= update_interval /\ update_interval <= REFRESH_MAX
         /\ update_interval >= ConfiguredInterval

\* C39 witness: a rate-limited answer during a boost has doubled the boosted
\* interval
C39_Witness ==
    /\ BoostActive
    /\ fetch_pc = "idle"
    /\ get_answer = "rate_limited"
    /\ prev_interval = BOOST_INTERVAL
    /\ update_interval = 2 * BOOST_INTERVAL

\* nothing is left that could open a no-read window or set a cooldown: no
\* call is to come, no fetch and no worker is under way
Quiet == CallsMade = MaxCalls /\ fetch_pc = "idle" /\ worker_pc = "none"

\* C40, one step: a task that wakes reschedules itself only inside a no-read
\* window or a cooldown, and then for a time at which both are over, later
\* than now; a task that does not reschedule itself leaves nothing behind;
\* and once all is quiet the window and the cooldown stay where they are
C40_Step ==
    /\ (DebounceFire /\ fired' = "rescheduled") =>
          /\ InNoReadWindow \/ CooldownRemaining > 0
          /\ Cardinality(debounce_tasks') = 1
          /\ refresh_deadline' > now
          /\ refresh_deadline' >= cooldown_until'
          /\ no_read_until' # None => refresh_deadline' >= no_read_until'
    /\ (DebounceFire /\ fired' # "rescheduled") =>
          /\ fired' \in {"requested", "dropped", "deferred"}
          /\ debounce_tasks' = {}
          /\ refresh_deadline' = None
          /\ debounce_refresh_task' = None
    /\ (Quiet /\ ~Tick) => (Quiet' /\ UNCHANGED <<cooldown_until, no_read_until>>)

\* C40: the reschedule chain of the debounced refresh ends: each reschedule
\* is for a time at which the no-read window and the cooldown that caused it
\* are over, so that, once no write is enqueued and no rate-limited answer
\* arrives any more, a task rescheduled from then on wakes outside both;
\* and every pending debounced refresh comes to the state with no debounce
\* task and no refresh_deadline, having requested a refresh or been dropped.
C40_ChainTerminates ==
    /\ [][C40_Step]_vars
    /\ (refresh_deadline # None) ~> (refresh_deadline = None /\ debounce_tasks = {} /\ fired # "rescheduled")

\* C40 witness: a task has rescheduled itself, the window and the cooldown
\* it woke in are over and nothing more is to come: its replacement is asleep
C40_Witness ==
    /\ fired = "rescheduled"
    /\ Quiet
    /\ Cardinality(debounce_tasks) = 1
    /\ ~InNoReadWindow
    /\ CooldownRemaining = 0
    /\ now < refresh_deadline
====
